---- MODULE Spec2Model ----
(***************************************************************************)
(* Model of the drama collector: the orchestrator's collection-job state   *)
(* machine with its HTTP entry point and scheduler loop                    *)
(* (orchestrator/drama_orchestrator.py, api/main.py), and the batch        *)
(* processor's job queue (utils/batch_processor.py).                       *)
(*                                                                         *)
(* Everything runs on one asyncio event loop, so an action is the code     *)
(* that runs between two suspension points (awaits that really suspend).   *)
(***************************************************************************)
EXTENDS Integers, Sequences, FiniteSets, TLC

(***************************************************************************)
(* Bounds of the model.                                                    *)
(***************************************************************************)
MaxJobs == 2          \* collection jobs created in one behaviour of Spec
MaxRuns == 1          \* collection jobs created in one behaviour of SpecJob
MaxTimed == 2         \* timed calls recorded per operation in one behaviour of SpecMonitor
MaxTime == 1          \* clock values 0..MaxTime (seconds of datetime.utcnow())
MaxItems == 1         \* records a collection stage can return
IntervalTicks == 1    \* scheduler.collection_interval_hours, in clock units
MaxBatchJobs == 3     \* batch jobs submitted in one behaviour of SpecBatch
MaxData == 3          \* items of a batch job in SpecBatchJob
MaxBatchSize == 2     \* batch_size of a batch job in SpecBatchJob
MaxRetries == 1       \* max_retries of a batch job in SpecBatchJob
max_concurrent_jobs == 1   \* BatchProcessor.max_concurrent_jobs
MaxSlots == 2              \* max_concurrent_jobs of the processor of SpecBatchLive
MaxLiveJobs == 3           \* batch jobs submitted in one behaviour of SpecBatchLive
MaxList == 1              \* records one source's collector returns
MaxCount == 3             \* count of collect_drama_list
MaxStamp == 1             \* the clock while collect_drama_list runs
rate == 2                 \* RateLimiter.rate: tokens per window
TicksPerToken == 2        \* per / rate, in clock ticks
MaxClock == 4             \* the event loop's clock runs 0..MaxClock
MaxCalls == 4             \* acquire() calls made on the rate limiter
MaxTitleLen == 2          \* characters of a title
current_year == 2026      \* datetime.now().year
MaxRaw == 2               \* records the collection stage hands to _process_data
MaxRecords == 2           \* records passed to export_data
MaxFormats == 2           \* formats requested of export_data
MaxExportCalls == 2       \* calls of export_data in one behaviour
MaxUpdates == 2           \* calls of update_config in one behaviour
MaxCacheOps == 2          \* cache operations called in one behaviour
MaxCacheTime == 2         \* the cache service's clock runs 0..MaxCacheTime
default_ttl == 2          \* CacheConfig.default_ttl, in seconds of that clock
MaxTtl == 1               \* ttl arguments 0..MaxTtl, 0 standing for None as well

NoTime == 0 - 1       \* None in an Optional[datetime] field

ApiTasks == {"a1", "a2"}      \* concurrent HTTP request handlers
SchedTasks == {"s1"}          \* the task running DramaOrchestrator.start()
Starters == {"s1", "s2"}      \* the tasks that may call start() concurrently
Tasks == ApiTasks \cup Starters

VARIABLES
    now,                  \* the wall clock
    config,               \* DramaOrchestrator.config (snapshot taken in __init__)
    state,                \* DramaOrchestrator.state
    current_job,          \* index into job_history, 0 for None
    job_history,          \* sequence of CollectionJob objects
    is_running,
    shutdown_requested,
    components_initialized,
    last_collection_time,
    next_scheduled_time,
    pc,                   \* where each task is suspended
    tjob,                 \* the local variable `job` of a task inside run_collection_job
    items,                \* the local list (its length) a running job carries between stages
    resp                  \* the HTTP status last answered to POST /jobs/start (0: none yet)

\* The components the orchestrator starts in initialize() and stops in
\* shutdown(), and the API process whose lifespan calls both.
VARIABLES
    monitoring_active,    \* PerformanceMonitor.monitoring_active
    executor_shutdown,    \* BatchProcessor.executor has been shut down
    cache_manager_set,    \* DramaOrchestrator.cache_manager is not None
    lifespan_pc           \* "none": no API process; "off", "serving", "closing", "closed"

lifeVars == <<monitoring_active, executor_shutdown, cache_manager_set, lifespan_pc>>

orchVars == <<now, config, state, current_job, job_history, is_running,
              shutdown_requested, components_initialized, last_collection_time,
              next_scheduled_time, pc, tjob, items, resp, lifeVars>>

(***************************************************************************)
(* The batch processor (utils/batch_processor.py).  A BatchJob object is   *)
(* an index into bjobs; the dicts active_jobs and completed_jobs map a job *)
(* id to an object (0: no entry).                                          *)
(***************************************************************************)
JobIds == {"j1", "j2"}

VARIABLES
    bjobs,                \* every BatchJob object created by submit_job
    job_queue,            \* BatchProcessor.job_queue
    active_jobs,          \* BatchProcessor.active_jobs
    completed_jobs,       \* BatchProcessor.completed_jobs
    is_processing,        \* BatchProcessor.is_processing
    loops_new,            \* _process_queue tasks created and not yet run
    loops_run             \* _process_queue tasks suspended in their while loop

batchVars == <<bjobs, job_queue, active_jobs, completed_jobs, is_processing,
               loops_new, loops_run>>

(***************************************************************************)
(* The rate limiter (utils/rate_limiter.py).  The clock counts ticks and   *)
(* one token is TicksPerToken ticks of refill, so tokens and last_update   *)
(* hold the limiter's floats exactly: tokens counts 1/TicksPerToken-ths of *)
(* a token.  The asyncio.Lock is its owner and its FIFO of waiters.        *)
(***************************************************************************)
Callers == {"c1", "c2"}

VARIABLES
    loop_time,            \* asyncio.get_event_loop().time(), in ticks
    tokens,               \* RateLimiter.tokens, in 1/TicksPerToken tokens
    last_update,          \* RateLimiter.last_update
    lock_owner,           \* RateLimiter._lock: the caller inside it, or "none"
    lock_waiters,         \* RateLimiter._lock: callers waiting, first come first
    rl_pc,                \* per caller: idle, waiting, locked, sleeping
    wake_at,              \* per caller: when its asyncio.sleep is due
    calls                 \* every acquire() that got the lock, in that order

rlVars == <<loop_time, tokens, last_update, lock_owner, lock_waiters, rl_pc,
            wake_at, calls>>

(***************************************************************************)
(* The multi-source collector (collectors/multi_source_collector.py).      *)
(* A call of collect_drama_list creates one task per constituent           *)
(* collector; src_raw and src_time record what each source's own collector *)
(* returned and when, task_result what gather holds for each task.  The    *)
(* call can be made a second time, the sources returning the same lists.   *)
(***************************************************************************)
Sources == {"douban", "mydramalist", "mock"}
Owners == Sources \cup {"multi"}

VARIABLES
    enabled_sources,      \* MultiSourceCollector.enabled_sources
    collectors,           \* MultiSourceCollector.collectors: its keys, in insertion order
    session,              \* per collector object: its session none, open or closed
    scope_pc,             \* where the async with scope of the collector stands
    list_pc,              \* collect_drama_list: idle, gather, done
    list_count,           \* collect_drama_list: count
    src_raw,              \* per source: pending, raised, or the list its collector returned
    src_time,             \* per source: the clock when its task finished
    task_result,          \* per task of gather: pending or the task's result
    run,                  \* which call of collect_drama_list this is
    prev_result,          \* what the previous call returned
    list_result,          \* what the call returned
    detail_pc,            \* collect_drama_detail: idle, preferred, 1..3, done
    preferred_source,     \* collect_drama_detail: preferred_source, "none" for None
    queried,              \* collect_drama_detail: the sources queried and what each did
    detail_result         \* collect_drama_detail: the source of the detail returned

msVars == <<enabled_sources, collectors, session, scope_pc, list_pc, list_count,
            src_raw, src_time, task_result, run, prev_result, list_result,
            detail_pc, preferred_source, queried, detail_result>>

(***************************************************************************)
(* The cache manager (utils/cache_manager.py).  redis_store is the cache   *)
(* service's key space: per full key the serialized text, the second at    *)
(* which the entry expires and, as a record of the call that wrote it, the *)
(* value and category that were passed to set.  cache_ret records the last *)
(* cache operation: its name and arguments, whether the manager was        *)
(* connected when it was called, whether the service call inside it        *)
(* failed, whether the operation raised, what it returned and when.        *)
(***************************************************************************)
VARIABLES
    redis_available,      \* REDIS_AVAILABLE: the redis library could be imported
    redis_client,         \* CacheManager.redis_client: none or client
    is_connected,         \* CacheManager.is_connected
    redis_store,          \* the service's entries, per full key
    cache_time,           \* the service's clock, in seconds
    cache_ops,            \* how many cache operations were called
    cache_ret             \* the last cache operation and its result

cacheVars == <<redis_available, redis_client, is_connected, redis_store,
               cache_time, cache_ops, cache_ret>>

(***************************************************************************)
(* The data validator (utils/data_validator.py) and the drama pipeline     *)
(* (utils/batch_processor.py), applied to one record.                      *)
(***************************************************************************)
VARIABLES
    val_data,             \* validate_drama_data: data, the record
    validation_level,     \* DataValidator.validation_level
    val_pc,               \* idle, validated (by validate_drama_data), piped
    val_result,           \* the ValidationResult returned
    pipe_result           \* what drama_processing_pipeline returned

valVars == <<val_data, validation_level, val_pc, val_result, pipe_result>>

(***************************************************************************)
(* The processing stage of the orchestrator (_process_data), record by     *)
(* record: the batch job applies the drama pipeline to every collected     *)
(* record, then the stage filters what the job returned.                   *)
(***************************************************************************)
VARIABLES
    raw_data,             \* _process_data: raw_data, the collected records
    quality_threshold,    \* config.processing.quality_threshold, in 1/32
    proc_pc,              \* idle, batch (the batch job runs), done
    job_results,          \* BatchJob.results of the processing job
    processed_data        \* what _process_data returned

procVars == <<raw_data, quality_threshold, proc_pc, job_results, processed_data>>

(***************************************************************************)
(* The export manager (export/data_exporter.py).  export_data loops over   *)
(* the requested formats and awaits one exporter per round; exp_log        *)
(* records what each round did, exp_given the list as the caller passed it *)
(* and history_before the export history when the call was made.           *)
(***************************************************************************)
VARIABLES
    exp_data,             \* the caller's list, passed as data
    exp_given,            \* the content of the caller's list at the call
    exp_formats,          \* export_data: formats
    include_metadata,     \* export_data: include_metadata
    compress,             \* export_data: compress
    exp_pc,               \* idle, loop, done or raised
    exp_i,                \* the round of the loop over formats
    exp_results,          \* export_data: results
    export_history,       \* DataExportManager.export_history
    history_before,       \* export_history when export_data was called
    exp_log,              \* per round: the format and unsupported, ok or raised
    exp_calls             \* how many calls of export_data were made

expVars == <<exp_data, exp_given, exp_formats, include_metadata, compress, exp_pc,
             exp_i, exp_results, export_history, history_before, exp_log, exp_calls>>

(***************************************************************************)
(* The configuration manager (config/config_manager.py): the settings that *)
(* _validate_config puts a hard constraint on.                             *)
(***************************************************************************)
VARIABLES
    live_config,          \* ConfigManager.config
    config_history,       \* ConfigManager.config_history
    config_before,        \* the configuration when update_config was last called
    update_raised         \* whether the last update_config raised

cfgVars == <<live_config, config_history, config_before, update_raised>>

(***************************************************************************)
(* The files the exporters write under the manager's output directory.     *)
(***************************************************************************)
VARIABLES
    exp_filename,         \* export_data: the filename the caller passes, "" for none
    exp_fs,               \* the files of the output directory: path and content
    exp_files             \* per entry of results: file_path, checksum, file_size_bytes

fileVars == <<exp_filename, exp_fs, exp_files>>

(***************************************************************************)
(* The data sources as the configuration manager holds them and as the     *)
(* orchestrator holds them; the statistics of the process-wide performance *)
(* monitor and of the orchestrator's own; the export flag of the body of   *)
(* POST /jobs/start.                                                       *)
(***************************************************************************)
VARIABLES
    manager_sources,      \* the sources enabled in ConfigManager.config.data_sources
    orch_sources,         \* the sources enabled in DramaOrchestrator.config.data_sources
    global_stats,         \* global_monitor.processing_stats: calls per operation
    own_stats,            \* DramaOrchestrator.performance_monitor.processing_stats
    mon_pc,               \* the stage a monitored job is at, idle, or maintenance
    req_export,           \* JobConfig.export_enabled of the requests
    job_slots             \* BatchProcessor.max_concurrent_jobs of the processor

restVars == <<manager_sources, orch_sources, global_stats, own_stats, mon_pc, req_export,
              job_slots>>

\* the state of the components that the rate limiter's and the collectors'
\* steps leave alone as well
moreVars == <<cacheVars, valVars, procVars, expVars, cfgVars, fileVars, restVars>>

\* the state of the utilities and collectors, which the orchestrator's and the
\* batch processor's steps leave alone
utilVars == <<rlVars, msVars, moreVars>>

\* what initialize() and shutdown() leave alone: all of the utilities but the
\* cache manager's connection
notConn == <<rlVars, msVars, valVars, procVars, expVars, cfgVars, fileVars, restVars,
             redis_available, redis_store, cache_time, cache_ops, cache_ret>>

\* DramaOrchestrator.__init__: no component started, no API process
LifeAtRest ==
    /\ monitoring_active = FALSE
    /\ executor_shutdown = FALSE
    /\ cache_manager_set = FALSE
    /\ lifespan_pc = "none"

\* what the cache manager's steps leave alone
notCache == <<orchVars, batchVars, rlVars, msVars, valVars, procVars, expVars, cfgVars,
             fileVars, restVars>>

\* what the validator's and the pipeline's steps leave alone
notVal == <<orchVars, batchVars, rlVars, msVars, cacheVars, procVars, expVars, cfgVars,
             fileVars, restVars>>

\* what the steps of the processing stage leave alone
notProc == <<orchVars, batchVars, rlVars, msVars, cacheVars, valVars, expVars, cfgVars,
             fileVars, restVars>>

\* what the export manager's steps leave alone
notExp == <<orchVars, batchVars, rlVars, msVars, cacheVars, valVars, procVars, cfgVars,
           restVars>>

\* what the configuration manager's steps leave alone
notCfg == <<orchVars, batchVars, rlVars, msVars, cacheVars, valVars, procVars, expVars,
             fileVars, restVars>>

\* no collector has been constructed
MsAtRest ==
    /\ enabled_sources = {}
    /\ collectors = <<>>
    /\ session = [o \in Owners |-> "none"]
    /\ scope_pc = "out"
    /\ list_pc = "idle"
    /\ list_count = 0
    /\ src_raw = [x \in Sources |-> [st |-> "pending", dramas |-> <<>>]]
    /\ src_time = [x \in Sources |-> 0]
    /\ task_result = <<>>
    /\ run = 1
    /\ prev_result = <<>>
    /\ list_result = <<>>
    /\ detail_pc = "idle"
    /\ preferred_source = "none"
    /\ queried = <<>>
    /\ detail_result = "none"

\* the cache keys, categories and key prefixes of the model: "drama" has its
\* own prefix, "other" is a category that key_prefixes lacks
CacheKeys == {"k1", "k2"}
Categories == {"drama", "other"}

\* CacheManager.key_prefixes.get(category, 'general:')
key_prefixes(category) == IF category = "drama" THEN "drama:" ELSE "general:"

\* CacheManager._build_key: the prefix followed by the key
build_key(key, category) == <<key_prefixes(category), key>>

FullKeys == {build_key(k, c) : k \in CacheKeys, c \in Categories}

\* Python's None, as a value
NoValue == [type |-> "NoneType", body |-> ""]

\* no entry under a full key
NoEntry == [ser |-> [json |-> "none", body |-> ""], exp |-> 0,
            value |-> NoValue, cat |-> "none"]

\* what a cache operation returns: a bool, a count, a value or a map from
\* keys to values, the parts it does not use left at their empty value
Ret(b, n, v, m) == [b |-> b, n |-> n, v |-> v, m |-> m]

\* False, 0, None and {} at once
EmptyRet == Ret(FALSE, 0, NoValue, {})

\* no cache operation was called yet
NoCall == [op |-> "none", key |-> "", keys |-> {}, cat |-> "none", at |-> 0,
           conn |-> FALSE, failed |-> FALSE, raised |-> FALSE, ret |-> EmptyRet]

\* CacheManager.__init__ with the redis library importable
CacheAtRest ==
    /\ redis_available = TRUE
    /\ redis_client = "none"
    /\ is_connected = FALSE
    /\ redis_store = [fk \in FullKeys |-> NoEntry]
    /\ cache_time = 0
    /\ cache_ops = 0
    /\ cache_ret = NoCall

\* a field of a record: absent, None, a text that is no number, or a number
Absent == [k |-> "absent", n |-> 0]
None == [k |-> "none", n |-> 0]
BadText == [k |-> "text", n |-> 0]
Num(n) == [k |-> "num", n |-> n]

\* a text field of a record: absent, or a string (a sequence of characters)
NoStr == [k |-> "absent", s |-> <<>>]
Str(s) == [k |-> "str", s |-> s]

\* the fields of a drama that validate_drama_data reads; rating is in tenths,
\* summary is the length of the text, quality_score is in 1/32
DramaData(id, title, year, rating, summary, episodes_count, quality_score) ==
    [id |-> id, title |-> title, year |-> year, rating |-> rating,
     summary |-> summary, episodes_count |-> episodes_count,
     quality_score |-> quality_score]

NoData == DramaData(NoStr, NoStr, Absent, Absent, Absent, Absent, Absent)

\* no ValidationResult, no pipeline result
NoResult == [is_valid |-> FALSE, errors |-> <<>>, warnings |-> <<>>,
             cleaned_data |-> NoData, quality_score |-> 0]
NoPipe == [status |-> "none", errors |-> <<>>, data |-> NoData, quality_score |-> 0]

\* no validator has been called
ValAtRest ==
    /\ val_data = NoData
    /\ validation_level = "moderate"
    /\ val_pc = "idle"
    /\ val_result = NoResult
    /\ pipe_result = NoPipe

\* no processing stage has been entered
ProcAtRest ==
    /\ raw_data = <<>>
    /\ quality_threshold = 0
    /\ proc_pc = "idle"
    /\ job_results = <<>>
    /\ processed_data = <<>>

\* DataExportManager.__init__
ExpAtRest ==
    /\ exp_data = <<>>
    /\ exp_given = <<>>
    /\ exp_formats = <<>>
    /\ include_metadata = TRUE
    /\ compress = FALSE
    /\ exp_pc = "idle"
    /\ exp_i = 1
    /\ exp_results = <<>>
    /\ export_history = <<>>
    /\ history_before = <<>>
    /\ exp_log = <<>>
    /\ exp_calls = 0

\* SystemConfig(): the defaults of the settings of the model
\* (database.host is "" when empty, "localhost" otherwise)
SystemConfig ==
    [database_host |-> "localhost", database_port |-> 27017, batch_size |-> 10,
     validation_level |-> "moderate", collection_interval_hours |-> 6]

\* ConfigManager.__init__
CfgAtRest ==
    /\ live_config = SystemConfig
    /\ config_history = <<>>
    /\ config_before = SystemConfig
    /\ update_raised = FALSE

\* DataExportManager.__init__ on an empty output directory
FileAtRest ==
    /\ exp_filename = ""
    /\ exp_fs = {}
    /\ exp_files = <<>>

\* the operations the orchestrator's stages are timed under
Ops == {"data_collection", "data_processing", "data_storage"}

\* ProcessingStats(): the counters of an operation nothing was recorded for
ProcessingStats == [total_processed |-> 0, total_failed |-> 0]

\* PerformanceMonitor.__init__: processing_stats has no entry
NoStats == [op \in Ops |-> ProcessingStats]

\* SystemConfig(): every data source enabled; PerformanceMonitor(); the
\* default of JobConfig.export_enabled
RestAtRest ==
    /\ manager_sources = Sources
    /\ orch_sources = Sources
    /\ global_stats = NoStats
    /\ own_stats = NoStats
    /\ mon_pc = "idle"
    /\ req_export = TRUE
    /\ job_slots = max_concurrent_jobs

MoreAtRest ==
    CacheAtRest /\ ValAtRest /\ ProcAtRest /\ ExpAtRest /\ CfgAtRest /\ FileAtRest /\ RestAtRest

\* RateLimiter.__init__, at clock 0
InitRateLimiter ==
    /\ loop_time = 0
    /\ tokens = rate * TicksPerToken
    /\ last_update = 0
    /\ lock_owner = "none"
    /\ lock_waiters = <<>>
    /\ rl_pc = [c \in Callers |-> "idle"]
    /\ wake_at = [c \in Callers |-> 0]
    /\ calls = <<>>

\* BatchProcessor.__init__
InitBatchProcessor ==
    /\ bjobs = <<>>
    /\ job_queue = <<>>
    /\ active_jobs = [id \in JobIds |-> 0]
    /\ completed_jobs = [id \in JobIds |-> 0]
    /\ is_processing = FALSE
    /\ loops_new = 0
    /\ loops_run = 0

(***************************************************************************)
(* CollectionJob and its fields.  `trace` records every value assigned to  *)
(* job.state; `exit` records how the run_collection_job call that owns the *)
(* job left ("none" while it is still inside).                             *)
(***************************************************************************)
CollectionJob(id, trigger) ==
    [job_id |-> id, state |-> "collecting", trace |-> <<"collecting">>,
     end_time |-> NoTime,
     total_collected |-> 0, total_processed |-> 0, total_stored |-> 0,
     errors |-> <<>>, trigger |-> trigger, exit |-> "none"]

SetState(job, s) == [job EXCEPT !.state = s, !.trace = Append(@, s)]

AddError(job, e) == [job EXCEPT !.errors = Append(@, e)]

Range(s) == {s[i] : i \in DOMAIN s}

RunPcs == {"collect", "process", "store", "export"}

(***************************************************************************)
(* _calculate_next_schedule and _should_run_collection.                    *)
(***************************************************************************)
calculate_next_schedule_immediate(last, t) ==
    IF ~config.scheduler_enabled THEN NoTime ELSE t

calculate_next_schedule(last, t) ==
    IF ~config.scheduler_enabled THEN NoTime
    ELSE IF last # NoTime THEN last + IntervalTicks
    ELSE t

should_run_collection_nocheck(t) ==
    /\ config.scheduler_enabled
    /\ next_scheduled_time # NoTime
    /\ t >= next_scheduled_time

should_run_collection(t) ==
    /\ config.scheduler_enabled
    /\ current_job = 0
    /\ next_scheduled_time # NoTime
    /\ t >= next_scheduled_time

(***************************************************************************)
(* run_collection_job up to its first suspension: the job is created, made *)
(* current and appended to the history.                                    *)
(***************************************************************************)
EnterJobReplacesHistory(t, trigger) ==
    /\ job_history' = <<CollectionJob(now, trigger)>>
    /\ current_job' = 1
    /\ tjob' = [tjob EXCEPT ![t] = 1]
    /\ items' = [items EXCEPT ![t] = 0]
    /\ pc' = [pc EXCEPT ![t] = "collect"]

EnterJob(t, trigger) ==
    /\ job_history' = Append(job_history, CollectionJob(now, trigger))
    /\ current_job' = Len(job_history) + 1
    /\ tjob' = [tjob EXCEPT ![t] = Len(job_history) + 1]
    /\ items' = [items EXCEPT ![t] = 0]
    /\ pc' = [pc EXCEPT ![t] = "collect"]

(***************************************************************************)
(* The `finally` clause of run_collection_job.                             *)
(***************************************************************************)
FinallyOnSuccessOnly(raised) == IF raised THEN current_job ELSE 0

FinallyCurrentJob(raised) == 0

(***************************************************************************)
(* The `except` clause of run_collection_job: the job as it is left when   *)
(* an exception escapes a stage.                                           *)
(***************************************************************************)
OnExceptionNoEndTime(job) ==
    [AddError(SetState(job, "error"), "exception") EXCEPT !.exit = "raise"]

OnException(job) ==
    [AddError(SetState(job, "error"), "exception")
        EXCEPT !.end_time = now, !.exit = "raise"]

(***************************************************************************)
(* The success tail of run_collection_job (lines 193-206).                 *)
(***************************************************************************)
OnSuccessKeepsState(job) ==
    [job EXCEPT !.end_time = now, !.exit = "return"]

OnSuccess(job) ==
    [SetState(job, "idle") EXCEPT !.end_time = now, !.exit = "return"]

(***************************************************************************)
(* What the caller does when run_collection_job returns or raises: the     *)
(* HTTP handler answers 200 or 500; the scheduler loop checks maintenance  *)
(* (maint: the tick's time is the maintenance hour) and sleeps, or logs    *)
(* the exception and sleeps.                                               *)
(***************************************************************************)
CallerAfterLoopEnds(t, raised, maint) ==
    /\ pc' = [pc EXCEPT ![t] = IF t \in ApiTasks THEN "idle"
                                ELSE IF raised THEN "off" ELSE "sleep"]
    /\ resp' = IF t \in ApiTasks THEN (IF raised THEN 500 ELSE 200) ELSE resp
    /\ state' = IF t \in SchedTasks /\ ~raised /\ maint THEN "idle" ELSE state

CallerAfter(t, raised, maint) ==
    /\ pc' = [pc EXCEPT ![t] = IF t \in ApiTasks THEN "idle" ELSE "sleep"]
    /\ resp' = IF t \in ApiTasks THEN (IF raised THEN 500 ELSE 200) ELSE resp
    /\ state' = IF t \in SchedTasks /\ ~raised /\ maint THEN "idle" ELSE state

Succeed(t, job, maint) ==
    /\ job_history' = [job_history EXCEPT ![tjob[t]] = OnSuccess(job)]
    /\ last_collection_time' = now
    /\ next_scheduled_time' = calculate_next_schedule(now, now)
    /\ current_job' = FinallyCurrentJob(FALSE)
    /\ tjob' = [tjob EXCEPT ![t] = 0]
    /\ items' = [items EXCEPT ![t] = 0]
    /\ CallerAfter(t, FALSE, maint)

Fail(t, job) ==
    /\ job_history' = [job_history EXCEPT ![tjob[t]] = OnException(job)]
    /\ current_job' = FinallyCurrentJob(TRUE)
    /\ tjob' = [tjob EXCEPT ![t] = 0]
    /\ items' = [items EXCEPT ![t] = 0]
    /\ CallerAfter(t, TRUE, FALSE)
    /\ UNCHANGED <<last_collection_time, next_scheduled_time>>

(***************************************************************************)
(* POST /jobs/start.                                                       *)
(***************************************************************************)
start_collection_job_nocheck(a) ==
    /\ pc[a] = "idle"
    /\ EnterJob(a, "manual")
    /\ UNCHANGED <<batchVars, utilVars, lifeVars, now, config, state, is_running, shutdown_requested, resp,
                   components_initialized, last_collection_time, next_scheduled_time>>

start_collection_job(a) ==
    /\ pc[a] = "idle"
    /\ IF current_job # 0
       THEN /\ resp' = 409
            /\ UNCHANGED <<current_job, job_history, tjob, items, pc>>
       ELSE /\ EnterJob(a, "manual")
            /\ UNCHANGED resp
    /\ UNCHANGED <<batchVars, utilVars, lifeVars, now, config, state, is_running, shutdown_requested,
                   components_initialized, last_collection_time, next_scheduled_time>>

(***************************************************************************)
(* The stages of run_collection_job.                                       *)
(***************************************************************************)
collect_data_done(t, n, detail_failed) ==
    /\ pc[t] = "collect"
    /\ detail_failed => n > 0
    /\ LET job == job_history[tjob[t]]
           j1 == IF detail_failed THEN AddError(job, "detail_failed") ELSE job
           j2 == SetState([j1 EXCEPT !.total_collected = n], "processing")
       IN job_history' = [job_history EXCEPT ![tjob[t]] = j2]
    /\ items' = [items EXCEPT ![t] = n]
    /\ pc' = [pc EXCEPT ![t] = "process"]
    /\ UNCHANGED <<batchVars, utilVars, lifeVars, now, config, state, current_job, is_running, shutdown_requested,
                   components_initialized, last_collection_time, next_scheduled_time,
                   tjob, resp>>

process_data_done(t, m) ==
    /\ pc[t] = "process"
    /\ m <= items[t]
    /\ LET job == job_history[tjob[t]]
           j1 == SetState([job EXCEPT !.total_processed = m], "storing")
       IN job_history' = [job_history EXCEPT ![tjob[t]] = j1]
    /\ items' = [items EXCEPT ![t] = m]
    /\ pc' = [pc EXCEPT ![t] = "store"]
    /\ UNCHANGED <<batchVars, utilVars, lifeVars, now, config, state, current_job, is_running, shutdown_requested,
                   components_initialized, last_collection_time, next_scheduled_time,
                   tjob, resp>>

store_data_done(t, maint) ==
    /\ pc[t] = "store"
    /\ LET job == job_history[tjob[t]]
           j1 == [job EXCEPT !.total_stored = items[t]]
       IN IF config.export_enabled
          THEN /\ job_history' = [job_history EXCEPT ![tjob[t]] = SetState(j1, "exporting")]
               /\ pc' = [pc EXCEPT ![t] = "export"]
               /\ ~maint
               /\ UNCHANGED <<state, current_job, last_collection_time,
                              next_scheduled_time, tjob, items, resp>>
          ELSE Succeed(t, j1, maint)
    /\ UNCHANGED <<batchVars, utilVars, lifeVars, now, config, is_running, shutdown_requested, components_initialized>>

store_data_raise(t) ==
    /\ pc[t] = "store"
    /\ items[t] > 0
    /\ Fail(t, AddError(job_history[tjob[t]], "storage_failed"))
    /\ UNCHANGED <<batchVars, utilVars, lifeVars, now, config, is_running, shutdown_requested, components_initialized>>

export_data_done_fatal(t, ok, maint) ==
    /\ pc[t] = "export"
    /\ LET job == job_history[tjob[t]]
       IN IF ok THEN Succeed(t, job, maint)
          ELSE ~maint /\ Fail(t, AddError(job, "export_failed"))
    /\ UNCHANGED <<batchVars, utilVars, lifeVars, now, config, is_running, shutdown_requested, components_initialized>>

export_data_done(t, ok, maint) ==
    /\ pc[t] = "export"
    /\ LET job == job_history[tjob[t]]
       IN Succeed(t, IF ok THEN job ELSE AddError(job, "export_failed"), maint)
    /\ UNCHANGED <<batchVars, utilVars, lifeVars, now, config, is_running, shutdown_requested, components_initialized>>

stage_raise(t) ==
    /\ pc[t] \in {"collect", "process"}
    /\ Fail(t, job_history[tjob[t]])
    /\ UNCHANGED <<batchVars, utilVars, lifeVars, now, config, is_running, shutdown_requested, components_initialized>>

(***************************************************************************)
(* start(): no-op when already running; initialize() suspends only when    *)
(* the components are not initialized yet.                                 *)
(***************************************************************************)
LoopPc == IF config.scheduler_enabled THEN "sleep" ELSE "wait_manual"

start(s) ==
    /\ pc[s] \in {"off", "queued"}
    /\ IF is_running
       THEN /\ pc' = [pc EXCEPT ![s] = "off"]
            /\ UNCHANGED <<state, is_running, shutdown_requested>>
       ELSE IF components_initialized
       THEN /\ is_running' = TRUE
            /\ shutdown_requested' = FALSE
            /\ pc' = [pc EXCEPT ![s] = LoopPc]
            /\ UNCHANGED state
       ELSE /\ state' = "initializing"
            /\ pc' = [pc EXCEPT ![s] = "initializing"]
            /\ UNCHANGED <<is_running, shutdown_requested>>
    /\ UNCHANGED <<batchVars, utilVars, lifeVars, now, config, current_job, job_history, components_initialized,
                   last_collection_time, next_scheduled_time, tjob, items, resp>>

\* initialize() past its first line: get_cache_manager() makes and connects
\* the process-wide cache manager when there is none yet (outcome "ok": the
\* server answers the ping; "ping": it does not; "url": from_url raises), the
\* performance monitor is started, the next schedule is computed
initialize_components(outcome) ==
    /\ cache_manager_set' = TRUE
    /\ IF cache_manager_set \/ ~redis_available
       THEN UNCHANGED <<redis_client, is_connected>>
       ELSE /\ redis_client' = IF outcome = "url" THEN redis_client ELSE "client"
            /\ is_connected' = (outcome = "ok")
    /\ monitoring_active' = TRUE
    /\ next_scheduled_time' = calculate_next_schedule(last_collection_time, now)
    /\ components_initialized' = TRUE
    /\ state' = "idle"

initialize_done(s, outcome) ==
    /\ pc[s] = "initializing"
    /\ initialize_components(outcome)
    /\ is_running' = TRUE
    /\ shutdown_requested' = FALSE
    /\ pc' = [pc EXCEPT ![s] = LoopPc]
    /\ UNCHANGED <<batchVars, notConn, executor_shutdown, lifespan_pc, now, config,
                   current_job, job_history, last_collection_time, tjob, items, resp>>

(***************************************************************************)
(* One iteration of _run_scheduler_loop, up to its next suspension.        *)
(***************************************************************************)
scheduler_tick(s, maint) ==
    /\ pc[s] = "sleep"
    /\ is_running /\ ~shutdown_requested
    /\ IF should_run_collection(now)
       THEN /\ EnterJob(s, "scheduled")
            /\ ~maint
            /\ UNCHANGED state
       ELSE /\ state' = IF maint /\ current_job = 0 THEN "idle" ELSE state
            /\ UNCHANGED <<current_job, job_history, tjob, items, pc>>
    /\ UNCHANGED <<batchVars, utilVars, lifeVars, now, config, is_running, shutdown_requested, components_initialized,
                   last_collection_time, next_scheduled_time, resp>>

(***************************************************************************)
(* The loop of start() ends and its `finally` calls shutdown().            *)
(***************************************************************************)
loop_exit(s) ==
    /\ pc[s] \in {"sleep", "wait_manual"}
    /\ ~(is_running /\ ~shutdown_requested)
    /\ IF is_running
       THEN /\ state' = "stopping"
            /\ pc' = [pc EXCEPT ![s] = "stopping"]
       ELSE /\ pc' = [pc EXCEPT ![s] = "off"]
            /\ UNCHANGED state
    /\ UNCHANGED <<batchVars, utilVars, lifeVars, now, config, current_job, job_history, is_running, shutdown_requested,
                   components_initialized, last_collection_time, next_scheduled_time,
                   tjob, items, resp>>

\* shutdown() after its wait for the current job: the monitor is stopped, the
\* batch processor's executor is shut down, the cache manager (when there is
\* one, and it has a client) is disconnected
shutdown_components ==
    /\ monitoring_active' = FALSE
    /\ executor_shutdown' = TRUE
    /\ is_connected' = IF cache_manager_set /\ redis_client # "none" THEN FALSE
                       ELSE is_connected
    /\ is_running' = FALSE
    /\ state' = "stopped"

shutdown_done(s) ==
    /\ pc[s] = "stopping"
    /\ shutdown_components
    /\ pc' = [pc EXCEPT ![s] = "off"]
    /\ UNCHANGED <<batchVars, notConn, redis_client, cache_manager_set, lifespan_pc, now,
                   config, current_job, job_history, shutdown_requested,
                   components_initialized, last_collection_time, next_scheduled_time,
                   tjob, items, resp>>

(***************************************************************************)
(* _signal_handler, and POST /orchestrator/stop.                           *)
(***************************************************************************)
request_shutdown ==
    /\ ~shutdown_requested
    /\ shutdown_requested' = TRUE
    /\ UNCHANGED <<batchVars, utilVars, lifeVars, now, config, state, current_job, job_history, is_running,
                   components_initialized, last_collection_time, next_scheduled_time,
                   pc, tjob, items, resp>>

Tick ==
    /\ now < MaxTime
    /\ now' = now + 1
    /\ UNCHANGED <<batchVars, utilVars, lifeVars, config, state, current_job, job_history, is_running,
                   shutdown_requested, components_initialized, last_collection_time,
                   next_scheduled_time, pc, tjob, items, resp>>

(***************************************************************************)
(* The orchestrator after construction (DramaOrchestrator.__init__), or    *)
(* after the API's lifespan has awaited initialize().                      *)
(***************************************************************************)
InitOrchestrator ==
    /\ now = 0
    /\ config \in [export_enabled : BOOLEAN, scheduler_enabled : BOOLEAN]
    /\ components_initialized \in BOOLEAN
    /\ state = "idle"
    /\ current_job = 0
    /\ job_history = <<>>
    /\ is_running = FALSE
    /\ shutdown_requested = FALSE
    /\ last_collection_time = NoTime
    /\ next_scheduled_time =
          IF components_initialized /\ config.scheduler_enabled THEN 0 ELSE NoTime
    /\ pc = [t \in Tasks |-> IF t \in ApiTasks THEN "idle" ELSE "off"]
    /\ tjob = [t \in Tasks |-> 0]
    /\ items = [t \in Tasks |-> 0]
    /\ resp = 0
    /\ monitoring_active = components_initialized
    /\ executor_shutdown = FALSE
    /\ cache_manager_set = components_initialized
    /\ lifespan_pc = IF components_initialized THEN "serving" ELSE "none"
    /\ InitBatchProcessor
    /\ InitRateLimiter
    /\ MsAtRest

InitOrch == InitOrchestrator /\ MoreAtRest

(***************************************************************************)
(* Spec: the orchestrator under concurrency.  Two HTTP clients and the     *)
(* task running start() interleave freely; every stage of a job can raise. *)
(* The data a stage returns is kept to one case (one record, collected,    *)
(* processed and stored without detail failures); SpecJob varies it.       *)
(***************************************************************************)
NextOrch ==
    \/ \E a \in ApiTasks : start_collection_job(a) /\ Len(job_history') <= MaxJobs
    \/ \E t \in Tasks : collect_data_done(t, 1, FALSE)
    \/ \E t \in Tasks : process_data_done(t, items[t])
    \/ \E t \in Tasks : store_data_done(t, FALSE)
    \/ \E t \in Tasks : store_data_raise(t)
    \/ \E t \in Tasks, ok \in BOOLEAN : export_data_done(t, ok, FALSE)
    \/ \E t \in Tasks : stage_raise(t)
    \/ \E s \in SchedTasks : start(s)
    \/ \E s \in SchedTasks : initialize_done(s, "url")
    \/ \E s \in SchedTasks, mt \in BOOLEAN :
          scheduler_tick(s, mt) /\ Len(job_history') <= MaxJobs
    \/ \E s \in SchedTasks : loop_exit(s)
    \/ \E s \in SchedTasks : shutdown_done(s)
    \/ request_shutdown
    \/ Tick

vars == <<orchVars, batchVars, utilVars>>

Spec == InitOrch /\ [][NextOrch]_vars

(***************************************************************************)
(* SpecJob: one caller at a time runs collection jobs, with every outcome  *)
(* of every stage: any number of records collected, processed and stored,  *)
(* detail failures, export failures, and an exception from any stage.      *)
(***************************************************************************)
JobCallers == {"a1", "s1"}

InitJob ==
    /\ InitOrch
    /\ components_initialized

NextJob ==
    \/ start_collection_job("a1") /\ Len(job_history') <= MaxRuns
    \/ \E t \in JobCallers, n \in 0..MaxItems, d \in BOOLEAN : collect_data_done(t, n, d)
    \/ \E t \in JobCallers, m \in 0..MaxItems : process_data_done(t, m)
    \/ \E t \in JobCallers, mt \in BOOLEAN : store_data_done(t, mt)
    \/ \E t \in JobCallers : store_data_raise(t)
    \/ \E t \in JobCallers, ok \in BOOLEAN, mt \in BOOLEAN : export_data_done(t, ok, mt)
    \/ \E t \in JobCallers : stage_raise(t)
    \/ start("s1")
    \/ \E mt \in BOOLEAN : scheduler_tick("s1", mt) /\ Len(job_history') <= MaxRuns
    \/ Tick

SpecJob == InitJob /\ [][NextJob]_vars

(***************************************************************************)
(* Properties of the orchestrator.                                         *)
(***************************************************************************)
Running == {i \in DOMAIN job_history : job_history[i].exit = "none"}

InsideRun == {t \in Tasks : pc[t] \in RunPcs}

\* C1: at most one collection job is current: at most one run_collection_job
\* call is in progress at any time, the job it runs is the current one, and so
\* run_collection_job is never entered while current_job is set.
C1_AtMostOneCurrentJob ==
    /\ Cardinality(Running) <= 1
    /\ Cardinality(InsideRun) <= 1
    /\ \A i \in Running : current_job = i
    /\ \A t \in InsideRun : tjob[t] = current_job

\* A job is current, a second client has been answered 409, and the scheduler
\* loop is awake with its next run due.
C1_Witness ==
    /\ current_job # 0
    /\ resp = 409
    /\ pc["s1"] = "sleep"
    /\ is_running /\ ~shutdown_requested
    /\ should_run_collection_nocheck(now)

\* C2: POST /jobs/start while a job is current answers 409 and changes neither
\* current_job nor job_history (no job is created); and 409 is answered only
\* while a job is current.
C2_ConflictHasNoEffect ==
    [][ /\ \A a \in ApiTasks :
              (current_job # 0 /\ start_collection_job(a))
                 => (resp' = 409 /\ UNCHANGED <<current_job, job_history, tjob>>)
        /\ (resp' = 409 /\ resp # 409)
              => (current_job # 0 /\ UNCHANGED <<current_job, job_history>>)
      ]_vars

C2_Witness ==
    /\ resp = 409
    /\ current_job # 0
    /\ Len(job_history) = 1

ExpectedTrace ==
    IF config.export_enabled
    THEN <<"collecting", "processing", "storing", "exporting", "idle">>
    ELSE <<"collecting", "processing", "storing", "idle">>

\* C3 as stated: a run_collection_job that returned without raising went through
\* collecting, processing, storing, (exporting,) idle and left end_time set and
\* errors empty.
C3_ReturnedJobHasNoErrors ==
    \A i \in DOMAIN job_history :
        job_history[i].exit = "return" =>
            /\ job_history[i].trace = ExpectedTrace
            /\ job_history[i].end_time # NoTime
            /\ job_history[i].errors = <<>>

\* C3 amended: a run_collection_job that returned without raising went through
\* collecting, processing, storing, (exporting only when export is enabled,)
\* idle, in that order and through no other state, and left end_time set; its
\* errors list holds nothing but the records of non-fatal failures (a detail
\* fetch that failed during collection, the export stage failing).
C3_ReturnedJobLifecycle ==
    \A i \in DOMAIN job_history :
        job_history[i].exit = "return" =>
            /\ job_history[i].trace = ExpectedTrace
            /\ job_history[i].state = "idle"
            /\ job_history[i].end_time # NoTime
            /\ Range(job_history[i].errors) \subseteq {"detail_failed", "export_failed"}
            /\ (~config.export_enabled =>
                    "export_failed" \notin Range(job_history[i].errors))
            /\ (job_history[i].total_collected = 0 =>
                    "detail_failed" \notin Range(job_history[i].errors))

C3_Witness ==
    \E i \in DOMAIN job_history :
        /\ job_history[i].exit = "return"
        /\ "exporting" \in Range(job_history[i].trace)
        /\ job_history[i].total_stored > 0
        /\ job_history[i].errors = <<>>

\* C4: a job whose storage step raised is in state error with end_time set and
\* a non-empty errors list, its run_collection_job call raised to the caller,
\* and it never was, and never gets, in the exporting state.
C4_StorageFailureIsFatal ==
    \A i \in DOMAIN job_history :
        "storage_failed" \in Range(job_history[i].errors) =>
            /\ job_history[i].state = "error"
            /\ job_history[i].trace = <<"collecting", "processing", "storing", "error">>
            /\ job_history[i].end_time # NoTime
            /\ Len(job_history[i].errors) > 0
            /\ job_history[i].exit = "raise"
            /\ current_job # i

C4_Witness ==
    \E i \in DOMAIN job_history :
        /\ "storage_failed" \in Range(job_history[i].errors)
        /\ config.export_enabled
        /\ resp = 500

\* C5: whenever run_collection_job has finished, by returning or by raising
\* from any stage, the current-job slot is empty: current_job is set only while
\* a call is in progress, so a job that failed does not block later starts.
C5_SlotClearedOnExit ==
    /\ (InsideRun = {}) => current_job = 0
    /\ \A i \in DOMAIN job_history : job_history[i].exit # "none" => current_job # i

\* A job failed, and a later start request was accepted.
C5_Witness ==
    /\ Len(job_history) = 2
    /\ job_history[1].exit = "raise"
    /\ job_history[2].trigger = "manual"
    /\ current_job = 2

\* C6: a failing export stage is recorded in the job's errors and the job still
\* ends like a successful one: state idle, end_time set, total_stored kept,
\* last_collection_time and next_scheduled_time updated from its end time, the
\* call returning (HTTP 200 for an API caller).
C6_ExportFailureNotFatal ==
    [][ \A i \in DOMAIN job_history :
          ( /\ job_history[i].state = "exporting"
            /\ job_history'[i] # job_history[i]
            /\ "export_failed" \in Range(job_history'[i].errors) )
          => /\ job_history'[i].state = "idle"
             /\ job_history'[i].end_time = now
             /\ job_history'[i].exit = "return"
             /\ job_history'[i].total_stored = job_history[i].total_stored
             /\ last_collection_time' = job_history'[i].end_time
             /\ next_scheduled_time' =
                   IF config.scheduler_enabled
                   THEN job_history'[i].end_time + IntervalTicks ELSE NoTime
             /\ current_job' = 0
             /\ \A t \in ApiTasks : tjob[t] = i => resp' = 200
      ]_vars

C6_Witness ==
    \E i \in DOMAIN job_history :
        /\ "export_failed" \in Range(job_history[i].errors)
        /\ job_history[i].state = "idle"
        /\ job_history[i].total_stored > 0
        /\ next_scheduled_time = job_history[i].end_time + IntervalTicks

(***************************************************************************)
(* The batch processor.                                                    *)
(*                                                                         *)
(* The items of a job are 1..n; the processor function of a job raises for *)
(* the items in `raises` and returns the item's own number for the others. *)
(* A result is an item number, or 0 for None.  An entry of errors is       *)
(* <<"batch", k>> (batch k failed), <<"job", c>> (the job was aborted with *)
(* c errors) or <<"cancelled", 0>>.  The fields pc, cur and order are the  *)
(* locals of the job's _process_job task: where it is suspended, the index *)
(* of the batch it awaits, and the items of that batch that have finished, *)
(* in the order they finished; timed_out records that the timeout of some  *)
(* batch of the job has fired.                                             *)
(***************************************************************************)
BatchJob(id, n, bs, mr, raises) ==
    [job_id |-> id, n |-> n, batch_size |-> bs, max_retries |-> mr, raises |-> raises,
     status |-> "pending", started_at |-> NoTime, completed_at |-> NoTime,
     results |-> <<>>, errors |-> <<>>,
     pc |-> "queued", cur |-> 0, order |-> <<>>, timed_out |-> FALSE]

ActiveIds(active) == {id \in JobIds : active[id] # 0}

Min(a, b) == IF a <= b THEN a ELSE b

\* _create_batches: the number of batches, and the items of batch i (from 0)
NumBatches(j) == (j.n + j.batch_size - 1) \div j.batch_size

BatchItems(j, i) == (i * j.batch_size + 1) .. Min(j.n, (i + 1) * j.batch_size)

\* _process_batch, lines 254-260: the result slot of one item
ItemResultKeepsException(j, k) == IF k \in j.raises THEN 0 - 1 ELSE k

ItemResult(j, k) == IF k \in j.raises THEN 0 ELSE k

\* asyncio.gather: the results of the awaited batch, in the order of its items
GatherResultsCompletionOrder(j) ==
    [p \in 1..Len(j.order) |-> ItemResult(j, j.order[p])]

GatherResults(j) ==
    [p \in 1..Cardinality(BatchItems(j, j.cur)) |->
        ItemResult(j, j.cur * j.batch_size + p)]

\* line 207: the error budget
ExceedsBudgetOffByOne(errors, mr) == Len(errors) >= mr

ExceedsBudget(errors, mr) == Len(errors) > mr

\* line 157: room for one more active job
CanStartOneTooMany(active) == Cardinality(ActiveIds(active)) <= job_slots

CanStart(active) == Cardinality(ActiveIds(active)) < job_slots

\* _process_queue, lines 157-161: pop jobs from the queue into active_jobs
RECURSIVE StartJobs(_, _, _)
StartJobs(queue, active, started) ==
    IF CanStart(active) /\ queue # <<>>
    THEN StartJobs(Tail(queue),
                   [active EXCEPT ![bjobs[Head(queue)].job_id] = Head(queue)],
                   started \cup {Head(queue)})
    ELSE [queue |-> queue, active |-> active, started |-> started]

submit_job(id, n, bs, mr, raises) ==
    /\ IF active_jobs[id] # 0 \/ completed_jobs[id] # 0
       THEN UNCHANGED <<bjobs, job_queue, loops_new>>
       ELSE /\ bjobs' = Append(bjobs, BatchJob(id, n, bs, mr, raises))
            /\ job_queue' = Append(job_queue, Len(bjobs) + 1)
            /\ loops_new' = IF is_processing THEN loops_new ELSE loops_new + 1
    /\ UNCHANGED <<orchVars, utilVars, active_jobs, completed_jobs, is_processing, loops_run>>

\* One pass of the while loop of _process_queue, up to its sleep; the loop
\* ends, through its finally clause, when the queue and active_jobs are empty.
\* isp: is_processing as the pass finds it.
QueuePass(continue, isp) ==
    IF job_queue # <<>> \/ ActiveIds(active_jobs) # {}
    THEN LET r == StartJobs(job_queue, active_jobs, {})
         IN /\ continue
            /\ job_queue' = r.queue
            /\ active_jobs' = r.active
            /\ bjobs' = [o \in DOMAIN bjobs |->
                            IF o \in r.started THEN [bjobs[o] EXCEPT !.pc = "task"]
                            ELSE bjobs[o]]
            /\ is_processing' = isp
    ELSE /\ ~continue
         /\ is_processing' = FALSE
         /\ UNCHANGED <<job_queue, active_jobs, bjobs>>

process_queue_start ==
    /\ loops_new > 0
    /\ loops_new' = loops_new - 1
    /\ \E c \in BOOLEAN :
          /\ QueuePass(c, TRUE)
          /\ loops_run' = IF c THEN loops_run + 1 ELSE loops_run
    /\ UNCHANGED <<orchVars, utilVars, completed_jobs>>

process_queue_wake ==
    /\ loops_run > 0
    /\ \E c \in BOOLEAN :
          /\ QueuePass(c, is_processing)
          /\ loops_run' = IF c THEN loops_run ELSE loops_run - 1
    /\ UNCHANGED <<orchVars, utilVars, completed_jobs, loops_new>>

\* _process_job, lines 224-228: the finally clause, run by the task of object o
\* once its job record has become j
MoveToCompleted(o, j) ==
    /\ bjobs' = [bjobs EXCEPT ![o] = j]
    /\ IF active_jobs[j.job_id] # 0
       THEN /\ completed_jobs' = [completed_jobs EXCEPT ![j.job_id] = o]
            /\ active_jobs' = [active_jobs EXCEPT ![j.job_id] = 0]
       ELSE UNCHANGED <<active_jobs, completed_jobs>>

\* lines 210-213
Completed(j) ==
    [j EXCEPT !.status = "completed", !.completed_at = now, !.pc = "done"]

\* lines 218-221
Aborted(j) ==
    [j EXCEPT !.status = "failed", !.completed_at = now, !.pc = "done",
              !.errors = Append(@, <<"job", Len(j.errors)>>)]

\* the for loop of _process_job goes on to its next batch, or the job completes
AfterBatch(o, j) ==
    IF j.cur + 1 < NumBatches(j)
    THEN /\ bjobs' = [bjobs EXCEPT ![o] = [j EXCEPT !.cur = j.cur + 1, !.order = <<>>]]
         /\ UNCHANGED <<active_jobs, completed_jobs>>
    ELSE MoveToCompleted(o, Completed([j EXCEPT !.order = <<>>]))

process_job_start(o) ==
    /\ o \in DOMAIN bjobs
    /\ bjobs[o].pc = "task"
    /\ LET j == [bjobs[o] EXCEPT !.status = "processing", !.started_at = now]
       IN IF NumBatches(j) = 0
          THEN MoveToCompleted(o, Completed(j))
          ELSE /\ bjobs' = [bjobs EXCEPT ![o] = [j EXCEPT !.pc = "gather"]]
               /\ UNCHANGED <<active_jobs, completed_jobs>>
    /\ UNCHANGED <<orchVars, utilVars, job_queue, is_processing, loops_new, loops_run>>

\* the processor call for item k of the awaited batch returns or raises
item_done(o, k) ==
    /\ o \in DOMAIN bjobs
    /\ bjobs[o].pc = "gather"
    /\ k \in BatchItems(bjobs[o], bjobs[o].cur)
    /\ k \notin Range(bjobs[o].order)
    /\ bjobs' = [bjobs EXCEPT ![o].order = Append(@, k)]
    /\ UNCHANGED <<orchVars, utilVars, job_queue, active_jobs, completed_jobs, is_processing,
                   loops_new, loops_run>>

\* every item of the batch has finished: _process_batch returns
batch_done(o) ==
    /\ o \in DOMAIN bjobs
    /\ bjobs[o].pc = "gather"
    /\ Range(bjobs[o].order) = BatchItems(bjobs[o], bjobs[o].cur)
    /\ AfterBatch(o, [bjobs[o] EXCEPT !.results = @ \o GatherResults(bjobs[o])])
    /\ UNCHANGED <<orchVars, utilVars, job_queue, is_processing, loops_new, loops_run>>

\* the batch timeout fires before every item has finished: _process_batch raises
batch_timeout(o) ==
    /\ o \in DOMAIN bjobs
    /\ bjobs[o].pc = "gather"
    /\ Range(bjobs[o].order) # BatchItems(bjobs[o], bjobs[o].cur)
    /\ LET j == [bjobs[o] EXCEPT !.errors = Append(@, <<"batch", bjobs[o].cur + 1>>),
                                 !.timed_out = TRUE]
       IN IF ExceedsBudget(j.errors, j.max_retries)
          THEN MoveToCompleted(o, Aborted([j EXCEPT !.order = <<>>]))
          ELSE AfterBatch(o, j)
    /\ UNCHANGED <<orchVars, utilVars, job_queue, is_processing, loops_new, loops_run>>

cancel_job(id) ==
    /\ job_queue' = SelectSeq(job_queue, LAMBDA o : bjobs[o].job_id # id)
    /\ IF active_jobs[id] # 0
       THEN /\ bjobs' = [bjobs EXCEPT ![active_jobs[id]] =
                            [@ EXCEPT !.status = "failed", !.completed_at = now,
                                      !.errors = Append(@, <<"cancelled", 0>>)]]
            /\ completed_jobs' = [completed_jobs EXCEPT ![id] = active_jobs[id]]
            /\ active_jobs' = [active_jobs EXCEPT ![id] = 0]
       ELSE UNCHANGED <<bjobs, active_jobs, completed_jobs>>
    /\ UNCHANGED <<orchVars, utilVars, is_processing, loops_new, loops_run>>

(***************************************************************************)
(* The orchestrator at rest, for the specifications of the batch processor.*)
(***************************************************************************)
OrchAtRest ==
    /\ now = 0
    /\ config = [export_enabled |-> TRUE, scheduler_enabled |-> TRUE]
    /\ components_initialized = FALSE
    /\ state = "idle"
    /\ current_job = 0
    /\ job_history = <<>>
    /\ is_running = FALSE
    /\ shutdown_requested = FALSE
    /\ last_collection_time = NoTime
    /\ next_scheduled_time = NoTime
    /\ pc = [t \in Tasks |-> IF t \in ApiTasks THEN "idle" ELSE "off"]
    /\ tjob = [t \in Tasks |-> 0]
    /\ items = [t \in Tasks |-> 0]
    /\ resp = 0
    /\ LifeAtRest

InitBatch ==
    /\ OrchAtRest /\ InitBatchProcessor /\ InitRateLimiter /\ MsAtRest
    /\ MoreAtRest

(***************************************************************************)
(* SpecBatch: the job queue under concurrency.  Jobs of one item are       *)
(* submitted under two ids at any time, also before a queue loop that was  *)
(* created has run, so that several queue loops run side by side.          *)
(***************************************************************************)
NextBatch ==
    \/ \E id \in JobIds :
          submit_job(id, 1, 1, 0, {}) /\ Len(bjobs') <= MaxBatchJobs
    \/ process_queue_start
    \/ process_queue_wake
    \/ \E o \in 1..MaxBatchJobs : process_job_start(o)
    \/ \E o \in 1..MaxBatchJobs, k \in 1..MaxData : item_done(o, k)
    \/ \E o \in 1..MaxBatchJobs : batch_done(o)
    \/ \E o \in 1..MaxBatchJobs : batch_timeout(o)
    \/ \E id \in JobIds : cancel_job(id)

SpecBatch == InitBatch /\ [][NextBatch]_vars

(***************************************************************************)
(* SpecBatchJob: one batch job, with every size, batch size, error budget  *)
(* and processor, every order of completion of the items of a batch, and a *)
(* timeout of any batch.                                                   *)
(***************************************************************************)
NextBatchJob ==
    \/ \E n \in 0..MaxData, bs \in 1..MaxBatchSize, mr \in 0..MaxRetries :
          \E raises \in SUBSET (1..n) :
              bjobs = <<>> /\ submit_job("j1", n, bs, mr, raises)
    \/ process_queue_start
    \/ process_queue_wake
    \/ process_job_start(1)
    \/ \E k \in 1..MaxData : item_done(1, k)
    \/ batch_done(1)
    \/ batch_timeout(1)
    \/ cancel_job("j1")

SpecBatchJob == InitBatch /\ [][NextBatchJob]_vars

(***************************************************************************)
(* Properties of the batch processor.                                      *)
(***************************************************************************)
FailedBatches(j) == {e[2] : e \in {x \in Range(j.errors) : x[1] = "batch"}}

WasAborted(j) == \E e \in Range(j.errors) : e[1] = "job"

\* the result slots of items lo..hi, raising items as None
RECURSIVE SlotsOf(_, _, _)
SlotsOf(j, lo, hi) ==
    IF lo > hi THEN <<>>
    ELSE <<IF lo \in j.raises THEN 0 ELSE lo>> \o SlotsOf(j, lo + 1, hi)

\* the results of batches 1..upto (counted from 1) that did not fail, in order
RECURSIVE KeptResults(_, _)
KeptResults(j, upto) ==
    IF upto = 0 THEN <<>>
    ELSE KeptResults(j, upto - 1) \o
         (IF upto \in FailedBatches(j) THEN <<>>
          ELSE SlotsOf(j, (upto - 1) * j.batch_size + 1, Min(j.n, upto * j.batch_size)))

\* C7: when no batch of a job timed out, exceptions raised by the processor
\* for items fail neither a batch nor the job: the job ends completed, with no
\* batch or job error recorded, and with one result slot per input item, None
\* for an item whose processing raised and the processor's value for any other.
C7_ItemExceptionsBecomeNone ==
    \A o \in DOMAIN bjobs :
        (bjobs[o].pc = "done" /\ ~bjobs[o].timed_out) =>
            /\ bjobs[o].status = "completed"
            /\ \A e \in Range(bjobs[o].errors) : e[1] = "cancelled"
            /\ Len(bjobs[o].results) = bjobs[o].n
            /\ \A k \in 1..bjobs[o].n :
                  bjobs[o].results[k] = IF k \in bjobs[o].raises THEN 0 ELSE k

\* 3 items in batches of 2, the processor raising for item 2 only
C7_Witness ==
    \E o \in DOMAIN bjobs :
        /\ bjobs[o].pc = "done"
        /\ bjobs[o].n = 3 /\ bjobs[o].batch_size = 2 /\ bjobs[o].raises = {2}
        /\ bjobs[o].status = "completed"
        /\ bjobs[o].results = <<1, 0, 3>>
        /\ completed_jobs[bjobs[o].job_id] = o

\* C8: the batches of a job run one after another in input order: while batch
\* cur+1 is awaited only its items are in flight and every earlier batch has
\* finished, its results written (in input order) or its failure recorded; and
\* when no batch failed, result k belongs to input item k, in whatever order
\* the items of a batch finished.
C8_BatchesInInputOrder ==
    \A o \in DOMAIN bjobs :
        /\ bjobs[o].pc = "gather" =>
              /\ bjobs[o].cur < NumBatches(bjobs[o])
              /\ Range(bjobs[o].order) \subseteq BatchItems(bjobs[o], bjobs[o].cur)
              /\ FailedBatches(bjobs[o]) \subseteq 1..bjobs[o].cur
              /\ bjobs[o].results = KeptResults(bjobs[o], bjobs[o].cur)
        /\ FailedBatches(bjobs[o]) = {} =>
              \A k \in 1..Len(bjobs[o].results) :
                  bjobs[o].results[k] = IF k \in bjobs[o].raises THEN 0 ELSE k

\* the first batch of two items has finished and its results are written; the
\* second batch is awaited
C8_Witness ==
    \E o \in DOMAIN bjobs :
        /\ bjobs[o].pc = "gather"
        /\ bjobs[o].cur = 1
        /\ bjobs[o].raises = {}
        /\ bjobs[o].results = <<1, 2>>
        /\ bjobs[o].order = <<>>
        /\ bjobs[o].n = 3

\* C9: a job is aborted (final status failed) only by the batch failure that
\* brings its error count above max_retries; a batch failure that leaves the
\* count at most max_retries is recorded and the following batches still run
\* (a job that is not aborted ends completed, every batch but the failed
\* ones in its results); an aborted job keeps the results of its earlier batches.
C9_AbortOnlyOverBudget ==
    \A o \in DOMAIN bjobs :
        LET j == bjobs[o]
            ne == Len(j.errors)
        IN /\ WasAborted(j) =>
                /\ j.pc = "done"
                /\ j.status = "failed"
                /\ j.errors[ne] = <<"job", ne - 1>>
                /\ ne - 1 > j.max_retries
                /\ j.errors[ne - 1][1] = "batch"
                /\ j.results = KeptResults(j, j.errors[ne - 1][2])
           /\ \A p \in 1..ne :
                (j.errors[p][1] = "batch" /\ p > j.max_retries)
                    => (WasAborted(j) /\ p = ne - 1)
           /\ (j.pc = "done" /\ ~WasAborted(j)) =>
                /\ j.status = "completed"
                /\ j.results = KeptResults(j, NumBatches(j))

\* max_retries = 1: the first batch succeeded, the second failed and was
\* tolerated, the third failed and aborted the job
C9_Witness ==
    \E o \in DOMAIN bjobs :
        /\ bjobs[o].max_retries = 1
        /\ bjobs[o].status = "failed"
        /\ bjobs[o].errors = <<<<"batch", 2>>, <<"batch", 3>>, <<"job", 2>>>>
        /\ bjobs[o].results = <<1>>

get_job_status(id) ==
    IF active_jobs[id] # 0 THEN bjobs[active_jobs[id]].status
    ELSE IF completed_jobs[id] # 0 THEN bjobs[completed_jobs[id]].status
    ELSE IF \E i \in DOMAIN job_queue : bjobs[job_queue[i]].job_id = id
         THEN bjobs[job_queue[CHOOSE i \in DOMAIN job_queue :
                       /\ bjobs[job_queue[i]].job_id = id
                       /\ \A h \in 1..(i - 1) : bjobs[job_queue[h]].job_id # id]].status
    ELSE "none"

\* cancel_job found the job in active_jobs
CancelledActive(j) == <<"cancelled", 0>> \in Range(j.errors)

\* cancel_job took the job out of the queue before a queue loop started it
CancelledQueued(o) == bjobs[o].pc = "queued" /\ o \notin Range(job_queue)

\* C11: after cancel_job on an active job the job is in the completed map
\* with status failed and a cancellation note, and no later step (of the
\* job's still-running processing task) changes its status, results or
\* completion time.
C11_CancelledActiveStaysFailed ==
    [][\A o \in DOMAIN bjobs' :
          CancelledActive(bjobs'[o]) =>
              /\ bjobs'[o].status = "failed"
              /\ completed_jobs'[bjobs'[o].job_id] = o
              /\ (o \in DOMAIN bjobs /\ CancelledActive(bjobs[o])) =>
                    /\ bjobs'[o].results = bjobs[o].results
                    /\ bjobs'[o].completed_at = bjobs[o].completed_at]_vars

\* C12: a job cancelled while it was queued is marked failed with a
\* cancellation note, get_job_status reports it as failed, and it is never
\* started.
C12_CancelledQueuedIsFailed ==
    \A o \in DOMAIN bjobs :
        CancelledQueued(o) =>
            /\ bjobs[o].status = "failed"
            /\ \E e \in Range(bjobs[o].errors) : e[1] = "cancelled"
            /\ get_job_status(bjobs[o].job_id) = "failed"
            /\ active_jobs[bjobs[o].job_id] # o

(***************************************************************************)
(* The rate limiter: acquire().                                            *)
(***************************************************************************)
\* lines 25-32, with tokens never refilled
RefillNone(t) == tokens

\* lines 25-32: tokens = min(rate, tokens + elapsed * (rate / per))
Refill(t) == Min(rate * TicksPerToken, tokens + (t - last_update))

\* line 37: sleep_time = (1 - tokens) * (per / rate)
SleepTime(tk) == TicksPerToken - tk

\* leaving the async with block: the lock goes to the first waiter, if any
ReleaseLock ==
    IF lock_waiters = <<>>
    THEN [owner |-> "none", waiters |-> <<>>, woken |-> {}]
    ELSE [owner |-> Head(lock_waiters), waiters |-> Tail(lock_waiters),
          woken |-> {Head(lock_waiters)}]

\* lines 25-41 up to the sleep, run by caller c once it holds the lock
AcquireBody(c, waiters) ==
    LET tk == Refill(loop_time)
        call == [tok |-> tk, at |-> loop_time, ret |-> NoTime, slept |-> 0]
    IN /\ last_update' = loop_time
       /\ IF tk < TicksPerToken
          THEN /\ tokens' = tk
               /\ calls' = Append(calls, [call EXCEPT !.slept = SleepTime(tk)])
               /\ wake_at' = [wake_at EXCEPT ![c] = loop_time + SleepTime(tk)]
               /\ rl_pc' = [rl_pc EXCEPT ![c] = "sleeping"]
               /\ lock_owner' = c
               /\ lock_waiters' = waiters
          ELSE /\ tokens' = tk - TicksPerToken
               /\ calls' = Append(calls, [call EXCEPT !.ret = loop_time])
               /\ LET r == IF waiters = <<>>
                           THEN [owner |-> "none", waiters |-> <<>>, woken |-> {}]
                           ELSE [owner |-> Head(waiters), waiters |-> Tail(waiters),
                                 woken |-> {Head(waiters)}]
                  IN /\ lock_owner' = r.owner
                     /\ lock_waiters' = r.waiters
                     /\ rl_pc' = [x \in Callers |->
                                    IF x \in r.woken THEN "locked"
                                    ELSE IF x = c THEN "idle" ELSE rl_pc[x]]
               /\ UNCHANGED wake_at

\* a caller calls acquire(): it takes the free lock at once, or queues for it
acquire(c) ==
    /\ rl_pc[c] = "idle"
    /\ Len(calls) + Len(lock_waiters) + Cardinality({x \in Callers : rl_pc[x] = "locked"})
          < MaxCalls
    /\ IF lock_owner = "none"
       THEN AcquireBody(c, lock_waiters)
       ELSE /\ lock_waiters' = Append(lock_waiters, c)
            /\ rl_pc' = [rl_pc EXCEPT ![c] = "waiting"]
            /\ UNCHANGED <<tokens, last_update, lock_owner, wake_at, calls>>
    /\ UNCHANGED <<orchVars, batchVars, msVars, moreVars, loop_time>>

\* a waiter that was handed the lock runs
acquire_locked(c) ==
    /\ rl_pc[c] = "locked"
    /\ AcquireBody(c, lock_waiters)
    /\ UNCHANGED <<orchVars, batchVars, msVars, moreVars, loop_time>>

\* lines 38-39: the sleep is over; tokens = 0 and acquire() returns
acquire_wake(c) ==
    /\ rl_pc[c] = "sleeping"
    /\ loop_time >= wake_at[c]
    /\ tokens' = 0
    /\ calls' = [calls EXCEPT ![Len(calls)].ret = loop_time]
    /\ lock_owner' = ReleaseLock.owner
    /\ lock_waiters' = ReleaseLock.waiters
    /\ rl_pc' = [x \in Callers |->
                   IF x \in ReleaseLock.woken THEN "locked"
                   ELSE IF x = c THEN "idle" ELSE rl_pc[x]]
    /\ UNCHANGED <<orchVars, batchVars, msVars, moreVars, loop_time, last_update, wake_at>>

\* the clock advances
clock_tick ==
    /\ loop_time < MaxClock
    /\ loop_time' = loop_time + 1
    /\ UNCHANGED <<orchVars, batchVars, msVars, moreVars, tokens, last_update, lock_owner, lock_waiters,
                   rl_pc, wake_at, calls>>

InitRate ==
    /\ OrchAtRest /\ InitBatchProcessor /\ InitRateLimiter /\ MsAtRest
    /\ MoreAtRest

NextRate ==
    \/ \E c \in Callers : acquire(c)
    \/ \E c \in Callers : acquire_locked(c)
    \/ \E c \in Callers : acquire_wake(c)
    \/ clock_tick

SpecRate == InitRate /\ [][NextRate]_vars

Returned == {i \in DOMAIN calls : calls[i].ret # NoTime}

\* C13: the number of acquire() calls that have returned by time t never
\* exceeds rate + (t - t0) * rate / per, t0 = 0 being the creation time.
C13_ReturnsWithinTokenBudget ==
    Cardinality(Returned) * TicksPerToken <= rate * TicksPerToken + loop_time

Drama(t, y, sm, g) ==
    [title |-> t, year |-> y, summary |-> sm, tags |-> g,
     data_source |-> "none", collection_timestamp |-> NoTime]

Pool ==
    {Drama("Ab", 2024, TRUE, 0), Drama(" ab ", 2024, FALSE, 2),
     Drama("ab", 2024, FALSE, 0), Drama("Ab", 0, TRUE, 0),
     Drama("Cd", 2024, FALSE, 0)}

\* MockCollector.mock_dramas
mock_dramas == <<Drama("Ab", 2024, TRUE, 0), Drama("Cd", 2024, FALSE, 0)>>

\* title.strip().lower(), on the titles of Pool
strip_lower(t) ==
    CASE t = "Ab"   -> "ab"
      [] t = " ab " -> "ab"
      [] t = "ab"   -> "ab"
      [] t = "Cd"   -> "cd"

\* lines 136-138: identifier = f"{title}_{year}"
identifier(d) == <<strip_lower(d.title), d.year>>

\* lines 163-179
calculate_completeness_score(d) ==
    (IF d.title # "" THEN 1 ELSE 0) + (IF d.summary THEN 2 ELSE 0)
        + (IF d.year # 0 THEN 1 ELSE 0) + d.tags

\* lines 157-161, a tie replacing the record kept so far
is_more_complete_or_equal(d1, d2) ==
    calculate_completeness_score(d1) >= calculate_completeness_score(d2)

\* lines 157-161
is_more_complete(d1, d2) ==
    calculate_completeness_score(d1) > calculate_completeness_score(d2)

\* lines 129-155: the loop of _deduplicate_dramas over what is left of dramas
RECURSIVE deduplicate_dramas(_, _, _)
deduplicate_dramas(dramas, seen, unique_dramas) ==
    IF dramas = <<>> THEN unique_dramas
    ELSE LET drama == Head(dramas)
             id == identifier(drama)
         IN IF id \notin seen
            THEN deduplicate_dramas(Tail(dramas), seen \cup {id},
                                    Append(unique_dramas, drama))
            ELSE LET e == CHOOSE k \in DOMAIN unique_dramas :
                              /\ identifier(unique_dramas[k]) = id
                              /\ \A h \in 1..(k - 1) : identifier(unique_dramas[h]) # id
                     index == CHOOSE k \in DOMAIN unique_dramas :
                              /\ unique_dramas[k] = unique_dramas[e]
                              /\ \A h \in 1..(k - 1) : unique_dramas[h] # unique_dramas[e]
                 IN IF is_more_complete(drama, unique_dramas[e])
                    THEN deduplicate_dramas(Tail(dramas), seen,
                                            [unique_dramas EXCEPT ![index] = drama])
                    ELSE deduplicate_dramas(Tail(dramas), seen, unique_dramas)

\* line 25, turned round
source_priority_reversed == <<"mock", "mydramalist", "douban">>

\* line 25
source_priority == <<"douban", "mydramalist", "mock">>

ListsUpTo(n) == UNION {[1..k -> Pool] : k \in 0..n}

Take(l, n) == SubSeq(l, 1, Min(n, Len(l)))

\* what the collect_drama_list of source x can do when asked for n records
SourceOutcomes(x, n) ==
    IF x = "mock" THEN {[st |-> "list", dramas |-> Take(mock_dramas, n)]}
    ELSE IF n = 0 THEN {[st |-> "list", dramas |-> <<>>]}
    ELSE IF x = "mydramalist"
         THEN {[st |-> "list", dramas |-> Take(l, n)] : l \in ListsUpTo(MaxList)}
                  \cup {[st |-> "raised", dramas |-> <<>>]}
    ELSE {[st |-> "list", dramas |-> l] : l \in ListsUpTo(MaxList)}
             \cup {[st |-> "raised", dramas |-> <<>>]}

\* lines 119-121
Tagged(l, x, t) ==
    [k \in DOMAIN l |-> [l[k] EXCEPT !.data_source = x, !.collection_timestamp = t]]

\* lines 65-84: the results of gather filed under their sources, merged by
\* priority, deduplicated and cut to count
RECURSIVE MergeByPriority(_, _)
MergeByPriority(order, source_results) ==
    IF order = <<>> THEN <<>>
    ELSE (IF Head(order) \in DOMAIN source_results
          THEN source_results[Head(order)] ELSE <<>>)
             \o MergeByPriority(Tail(order), source_results)

\* line 63 without return_exceptions: one failed task fails them all
GatheredListsAbortOnRaise ==
    [k \in DOMAIN task_result |->
        IF \E x \in Range(collectors) : src_raw[x].st = "raised"
        THEN <<>> ELSE task_result[k].dramas]

\* lines 63-73: the list each task of gather contributes
GatheredLists == [k \in DOMAIN task_result |-> task_result[k].dramas]

ListReturn ==
    LET source_results ==
            [x \in Range(collectors) |->
                GatheredLists[CHOOSE k \in DOMAIN collectors : collectors[k] = x]]
        all_dramas == MergeByPriority(source_priority, source_results)
    IN Take(deduplicate_dramas(all_dramas, {}, <<>>), list_count)

\* lines 54-63: the tasks are created and gathered
StartList ==
    IF collectors = <<>>
    THEN /\ list_pc' = "done"
         /\ task_result' = <<>>
         /\ list_result' = <<>>
    ELSE /\ list_pc' = "gather"
         /\ task_result' = [k \in DOMAIN collectors |-> [st |-> "pending", dramas |-> <<>>]]
         /\ UNCHANGED list_result

collect_drama_list(cnt) ==
    /\ scope_pc = "in"
    /\ list_pc = "idle"
    /\ detail_pc = "idle"
    /\ list_count' = cnt
    /\ StartList
    /\ UNCHANGED <<orchVars, batchVars, rlVars, moreVars, enabled_sources, collectors, session,
                   scope_pc, src_raw, src_time, run, prev_result, detail_pc,
                   preferred_source, queried, detail_result>>

\* the same call once more, every source returning what it returned before
collect_drama_list_again ==
    /\ list_pc = "done"
    /\ run = 1
    /\ run' = 2
    /\ prev_result' = list_result
    /\ StartList
    /\ UNCHANGED <<orchVars, batchVars, rlVars, moreVars, enabled_sources, collectors, session,
                   scope_pc, list_count, src_raw, src_time, detail_pc,
                   preferred_source, queried, detail_result>>

\* lines 113-127: the task of source collectors[k] finishes
collect_from_source(k) ==
    /\ list_pc = "gather"
    /\ k \in DOMAIN task_result
    /\ task_result[k].st = "pending"
    /\ \E out \in (IF run = 1
                   THEN SourceOutcomes(collectors[k], list_count \div Len(collectors))
                   ELSE {src_raw[collectors[k]]}) :
          /\ src_raw' = [src_raw EXCEPT ![collectors[k]] = out]
          /\ task_result' = [task_result EXCEPT ![k] =
                [st |-> "done",
                 dramas |-> IF out.st = "raised" THEN <<>>
                            ELSE Tagged(out.dramas, collectors[k], loop_time)]]
    /\ src_time' = [src_time EXCEPT ![collectors[k]] = loop_time]
    /\ UNCHANGED <<orchVars, batchVars, rlVars, moreVars, enabled_sources, collectors, session,
                   scope_pc, list_pc, list_count, run, prev_result, list_result,
                   detail_pc, preferred_source, queried, detail_result>>

\* lines 63-84: gather returns and collect_drama_list returns
gather_done ==
    /\ list_pc = "gather"
    /\ \A k \in DOMAIN task_result : task_result[k].st = "done"
    /\ list_result' = ListReturn
    /\ list_pc' = "done"
    /\ UNCHANGED <<orchVars, batchVars, rlVars, moreVars, enabled_sources, collectors, session,
                   scope_pc, list_count, src_raw, src_time, task_result, run,
                   prev_result, detail_pc, preferred_source, queried, detail_result>>

\* lines 27-43: the collector inside its scope, every session open
InScope(enabled) ==
    /\ enabled_sources = enabled
    /\ collectors = SelectSeq(<<"douban", "mydramalist", "mock">>,
                              LAMBDA x : x \in enabled)
    /\ session = [o \in Owners |-> IF o = "multi" \/ o \in enabled THEN "open" ELSE "none"]
    /\ scope_pc = "in"

InitList ==
    /\ OrchAtRest /\ InitBatchProcessor /\ InitRateLimiter /\ MoreAtRest
    /\ \E enabled \in SUBSET Sources : InScope(enabled)
    /\ list_pc = "idle"
    /\ list_count = 0
    /\ src_raw = [x \in Sources |-> [st |-> "pending", dramas |-> <<>>]]
    /\ src_time = [x \in Sources |-> 0]
    /\ task_result = <<>>
    /\ run = 1
    /\ prev_result = <<>>
    /\ list_result = <<>>
    /\ detail_pc = "idle"
    /\ preferred_source = "none"
    /\ queried = <<>>
    /\ detail_result = "none"

NextList ==
    \/ \E cnt \in 0..MaxCount : collect_drama_list(cnt)
    \/ collect_drama_list_again
    \/ \E k \in 1..3 : collect_from_source(k)
    \/ gather_done
    \/ clock_tick /\ loop_time' <= MaxStamp

SpecList == InitList /\ [][NextList]_vars

(***************************************************************************)
(* Properties of collect_drama_list.                                       *)
(***************************************************************************)
\* every record the sources' collectors returned to this call, as
\* _collect_from_source marks it
AllCollected ==
    UNION {Range(Tagged(src_raw[x].dramas, x, src_time[x])) :
              x \in {y \in Range(collectors) : src_raw[y].st = "list"}}

\* lowercase(strip(title)) + "_" + year
TitleKey(d) == <<IF d.title \in {"Ab", " ab ", "ab"} THEN "ab" ELSE "cd", d.year>>

Prio(x) == CHOOSE k \in 1..3 : <<"douban", "mydramalist", "mock">>[k] = x

\* C15: the returned list holds no two records with the same key
\* lowercase(strip(title)) + "_" + year, and each returned record has the
\* highest completeness score among all collected records with its key, no
\* record of a higher-priority source having the same score.
C15_DedupKeepsMostComplete ==
    list_pc = "done" =>
        /\ \A i, j \in DOMAIN list_result :
              i # j => TitleKey(list_result[i]) # TitleKey(list_result[j])
        /\ \A i \in DOMAIN list_result :
              /\ list_result[i] \in AllCollected
              /\ \A c \in AllCollected :
                    TitleKey(c) = TitleKey(list_result[i]) =>
                        /\ calculate_completeness_score(c)
                              <= calculate_completeness_score(list_result[i])
                        /\ calculate_completeness_score(c)
                              = calculate_completeness_score(list_result[i])
                              => Prio(list_result[i].data_source) <= Prio(c.data_source)

\* a record of mydramalist replaced a less complete record of douban with the
\* same key but another spelling of the title, and won a tie against mock
C15_Witness ==
    /\ list_pc = "done"
    /\ \E i \in DOMAIN list_result :
          /\ list_result[i].data_source = "mydramalist"
          /\ \E c \in AllCollected :
                /\ c.data_source = "douban"
                /\ c.title # list_result[i].title
                /\ TitleKey(c) = TitleKey(list_result[i])
          /\ \E c \in AllCollected :
                /\ c.data_source = "mock"
                /\ TitleKey(c) = TitleKey(list_result[i])
                /\ calculate_completeness_score(c)
                      = calculate_completeness_score(list_result[i])

\* what source x contributed to this call: its list as marked, nothing when
\* it is not enabled or raised
Contribution(x) ==
    IF x \in Range(collectors) /\ src_raw[x].st = "list"
    THEN Tagged(src_raw[x].dramas, x, src_time[x])
    ELSE <<>>

NoStamp(l) == [k \in DOMAIN l |-> [l[k] EXCEPT !.collection_timestamp = NoTime]]

\* C16 as stated: the result is a function of the lists the sources returned
\* only, so a second call in which every source returns the same list returns
\* the same list, whenever and in whatever order the tasks finish.
C16_SameListsSameResult ==
    (run = 2 /\ list_pc = "done") => list_result = prev_result

\* C16, amended: the returned list is the lists of douban, mydramalist and
\* mock, in that order, each record marked with its source and with the time
\* its source's task finished, deduplicated and cut to count; but for those
\* times a second call with the same lists returns the same list.
C16_MergedInFixedOrder ==
    list_pc = "done" =>
        /\ list_result =
              Take(deduplicate_dramas(Contribution("douban") \o Contribution("mydramalist")
                                          \o Contribution("mock"), {}, <<>>),
                   list_count)
        /\ run = 2 => NoStamp(list_result) = NoStamp(prev_result)

\* in the second call mock finished before douban, the other way round from
\* the first call; both contribute to the result
C16_Witness ==
    /\ run = 2
    /\ list_pc = "done"
    /\ src_time["mock"] < src_time["douban"]
    /\ list_result # prev_result
    /\ Len(list_result) >= 2
    /\ list_result[1].data_source = "douban"
    /\ list_result[1].collection_timestamp > prev_result[1].collection_timestamp
    /\ list_result[Len(list_result)].data_source = "mock"

RaisedSources == {x \in Range(collectors) : src_raw[x].st = "raised"}

\* C17: when the list collection of a source raises, collect_drama_list
\* still returns: nothing in the result comes from the failing source, and
\* the records of the other sources are merged as ever, one record for each
\* of their keys, up to count.
C17_FailingSourceContributesNothing ==
    (list_pc = "done" /\ RaisedSources # {}) =>
        /\ \A i \in DOMAIN list_result :
              /\ list_result[i].data_source \notin RaisedSources
              /\ list_result[i] \in AllCollected
        /\ Len(list_result) =
              Min(list_count, Cardinality({TitleKey(c) : c \in AllCollected}))

\* douban raised; the result holds a record of mydramalist and one of mock
C17_Witness ==
    /\ list_pc = "done"
    /\ src_raw["douban"].st = "raised"
    /\ Len(list_result) = 2
    /\ list_result[1].data_source = "mydramalist"
    /\ list_result[2].data_source = "mock"

\* C18: with mock enabled and count >= 1 the returned list is not empty, has
\* at most count records, every record carries data_source, and at least one
\* record comes from mock.
C18_MockFallbackNonEmpty ==
    (list_pc = "done" /\ "mock" \in enabled_sources /\ list_count >= 1) =>
        /\ list_result # <<>>
        /\ Len(list_result) <= list_count
        /\ \A i \in DOMAIN list_result : list_result[i].data_source \in Sources
        /\ \E i \in DOMAIN list_result : list_result[i].data_source = "mock"

(***************************************************************************)
(* The multi-source collector: collect_drama_detail.  detail_pc is the     *)
(* query awaited: that of the preferred source, or that of a source in the *)
(* loop over source_priority.  A query finds the detail, returns an empty  *)
(* one, or raises.                                                         *)
(***************************************************************************)
Outcomes == {"found", "empty", "raised"}

\* lines 100-101, the loop passing over the preferred source
NextQuerySkipsPreferred(from) ==
    LET cands == {k \in from..3 : /\ source_priority[k] \in Range(collectors)
                                  /\ source_priority[k] # preferred_source}
    IN IF cands = {} THEN "done"
       ELSE source_priority[CHOOSE k \in cands : \A h \in cands : k <= h]

\* lines 100-101: the next enabled source of the loop, from position from on
NextQuery(from) ==
    LET cands == {k \in from..3 : source_priority[k] \in Range(collectors)}
    IN IF cands = {} THEN "done"
       ELSE source_priority[CHOOSE k \in cands : \A h \in cands : k <= h]

\* lines 86-92, 100-103: the call, up to its first query
collect_drama_detail(pref) ==
    /\ scope_pc = "in"
    /\ list_pc = "idle"
    /\ detail_pc = "idle"
    /\ preferred_source' = pref
    /\ detail_pc' = IF pref # "none" /\ pref \in Range(collectors)
                    THEN "preferred" ELSE NextQuery(1)
    /\ UNCHANGED <<orchVars, batchVars, rlVars, moreVars, enabled_sources, collectors, session,
                   scope_pc, list_pc, list_count, src_raw, src_time, task_result, run,
                   prev_result, list_result, queried, detail_result>>

\* lines 92-111: the awaited query ends; the call returns or goes on
detail_answer(outcome) ==
    /\ detail_pc \in Sources \cup {"preferred"}
    /\ LET src == IF detail_pc = "preferred" THEN preferred_source ELSE detail_pc
       IN /\ queried' = Append(queried, <<src, outcome>>)
          /\ IF outcome = "found"
             THEN /\ detail_result' = src
                  /\ detail_pc' = "done"
             ELSE /\ detail_pc' = IF detail_pc = "preferred" THEN NextQuery(1)
                                  ELSE NextQuery(Prio(src) + 1)
                  /\ UNCHANGED detail_result
    /\ UNCHANGED <<orchVars, batchVars, rlVars, moreVars, enabled_sources, collectors, session,
                   scope_pc, list_pc, list_count, src_raw, src_time, task_result, run,
                   prev_result, list_result, preferred_source>>

NextDetail ==
    \/ \E pref \in Sources \cup {"none"} : collect_drama_detail(pref)
    \/ \E outcome \in Outcomes : detail_answer(outcome)

SpecDetail == InitList /\ [][NextDetail]_vars

\* the sources collect_drama_detail may query, in the order it may query them
QueryOrder ==
    (IF preferred_source # "none" /\ preferred_source \in enabled_sources
     THEN <<preferred_source>> ELSE <<>>)
        \o SelectSeq(<<"douban", "mydramalist", "mock">>,
                     LAMBDA x : x \in enabled_sources)

\* C19: the preferred source is queried first when given and enabled, then
\* the enabled sources in the order douban, mydramalist, mock; the first
\* non-empty detail ends the call and is returned with data_source set to
\* its source; the call returns an empty detail exactly when every source
\* of that order was queried and raised or returned empty.
C19_DetailFirstNonEmpty ==
    detail_pc = "done" =>
        /\ Len(queried) <= Len(QueryOrder)
        /\ \A k \in DOMAIN queried :
              /\ queried[k][1] = QueryOrder[k]
              /\ k < Len(queried) => queried[k][2] # "found"
        /\ IF queried # <<>> /\ queried[Len(queried)][2] = "found"
           THEN detail_result = queried[Len(queried)][1]
           ELSE detail_result = "none" /\ Len(queried) = Len(QueryOrder)

\* mock is preferred and raises, douban returns empty, mydramalist raises,
\* and mock, asked again, has the detail
C19_Witness ==
    /\ detail_pc = "done"
    /\ preferred_source = "mock"
    /\ queried = <<<<"mock", "raised">>, <<"douban", "empty">>,
                   <<"mydramalist", "raised">>, <<"mock", "found">>>>
    /\ detail_result = "mock"

(***************************************************************************)
(* The multi-source collector: the async with scope.  Opening a session    *)
(* (BaseCollector.__aenter__) and closing one (session.close()) can raise. *)
(* While sessions are closed scope_pc names the collector whose close is   *)
(* awaited.                                                                *)
(***************************************************************************)
\* the collector objects whose sessions the scope opens, in order: the
\* multi-source collector's own, then those of the enabled constituents
OpenOrder(enabled) ==
    <<"multi">> \o SelectSeq(<<"douban", "mydramalist", "mock">>,
                             LAMBDA x : x \in enabled)

\* lines 45-50: the collector whose session __aexit__ closes after that at
\* position k of collectors (0: first of all); the own session comes last
NextClose(k) ==
    IF k < Len(collectors) THEN collectors[k + 1]
    ELSE IF k = Len(collectors) THEN "multi" ELSE "left"

\* lines 27-43: __aenter__; the opening of the session of failing raises
\* ("none": none does), which leaves the scope without __aexit__ being called
scope_enter(failing) ==
    /\ scope_pc = "out"
    /\ failing \in Range(OpenOrder(enabled_sources)) \cup {"none"}
    /\ LET order == OpenOrder(enabled_sources)
           stop == IF failing = "none" THEN Len(order) + 1
                   ELSE CHOOSE k \in DOMAIN order : order[k] = failing
       IN /\ session' = [o \in Owners |->
                           IF \E k \in 1..(stop - 1) : order[k] = o
                           THEN "open" ELSE session[o]]
          /\ collectors' = SelectSeq(Tail(order),
                                     LAMBDA x : \E k \in 2..Min(stop, Len(order)) : order[k] = x)
    /\ scope_pc' = IF failing = "none" THEN "in" ELSE "left"
    /\ UNCHANGED <<orchVars, batchVars, rlVars, moreVars, enabled_sources, list_pc, list_count,
                   src_raw, src_time, task_result, run, prev_result, list_result,
                   detail_pc, preferred_source, queried, detail_result>>

\* the body of the scope ends, by returning or by raising: __aexit__ begins
scope_body_ends ==
    /\ scope_pc = "in"
    /\ scope_pc' = NextClose(0)
    /\ UNCHANGED <<orchVars, batchVars, rlVars, moreVars, enabled_sources, collectors, session,
                   list_pc, list_count, src_raw, src_time, task_result, run,
                   prev_result, list_result, detail_pc, preferred_source, queried,
                   detail_result>>

\* lines 47-50 and base_collector.py 31-33: the awaited close ends; when it
\* raises, the exception leaves __aexit__ and nothing more is closed
scope_close(raises) ==
    /\ scope_pc \in Owners
    /\ IF raises
       THEN /\ scope_pc' = "left"
            /\ UNCHANGED session
       ELSE /\ session' = [session EXCEPT ![scope_pc] = "closed"]
            /\ scope_pc' = IF scope_pc = "multi" THEN "left"
                           ELSE NextClose(CHOOSE k \in DOMAIN collectors :
                                              collectors[k] = scope_pc)
    /\ UNCHANGED <<orchVars, batchVars, rlVars, moreVars, enabled_sources, collectors, list_pc,
                   list_count, src_raw, src_time, task_result, run, prev_result,
                   list_result, detail_pc, preferred_source, queried, detail_result>>

InitScope ==
    /\ OrchAtRest /\ InitBatchProcessor /\ InitRateLimiter /\ MoreAtRest
    /\ enabled_sources \in SUBSET Sources
    /\ collectors = <<>>
    /\ session = [o \in Owners |-> "none"]
    /\ scope_pc = "out"
    /\ list_pc = "idle"
    /\ list_count = 0
    /\ src_raw = [x \in Sources |-> [st |-> "pending", dramas |-> <<>>]]
    /\ src_time = [x \in Sources |-> 0]
    /\ task_result = <<>>
    /\ run = 1
    /\ prev_result = <<>>
    /\ list_result = <<>>
    /\ detail_pc = "idle"
    /\ preferred_source = "none"
    /\ queried = <<>>
    /\ detail_result = "none"

NextScope ==
    \/ \E failing \in Owners \cup {"none"} : scope_enter(failing)
    \/ collect_drama_detail("none")
    \/ \E outcome \in Outcomes : detail_answer(outcome)
    \/ scope_body_ends
    \/ \E raises \in BOOLEAN : scope_close(raises)

SpecScope == InitScope /\ [][NextScope]_vars

\* C20: once the scope has been left, however it was left, no session that
\* was opened on entering it is still open.
C20_SessionsClosedOnExit ==
    scope_pc = "left" => \A o \in Owners : session[o] # "open"

(***************************************************************************)
(* The cache manager's operations (utils/cache_manager.py).  A Python      *)
(* value is a type and a body; the service stores the JSON text that       *)
(* json.dumps(value, default=str) produces, and get returns what           *)
(* json.loads makes of that text.  Every operation is one step: it is      *)
(* called, makes its service call, which works or fails, and returns.      *)
(***************************************************************************)
PyValues ==
    { [type |-> "str", body |-> "a"], [type |-> "list", body |-> "a"],
      [type |-> "tuple", body |-> "a"], [type |-> "datetime", body |-> "a"] }

\* json.dumps(value, ensure_ascii=False, default=str): a list and a tuple
\* become a JSON array, a str a JSON string, and a datetime, which JSON lacks,
\* goes through default=str and becomes a JSON string as well
json_dumps(value) ==
    [json |-> IF value.type \in {"list", "tuple"} THEN "array" ELSE "string",
     body |-> value.body]

\* a mutant of json_loads: every text is read as a str
json_loads_as_text(ser) == [type |-> "str", body |-> ser.body]

\* json.loads: a JSON array becomes a list, a JSON string a str
json_loads(ser) ==
    [type |-> IF ser.json = "array" THEN "list" ELSE "str", body |-> ser.body]

\* the service holds an entry under the full key and it has not expired
Live(fk) == redis_store[fk] # NoEntry /\ cache_time < redis_store[fk].exp

\* ttl = ttl or self.config.default_ttl
EffectiveTtl(ttl) == IF ttl = 0 THEN default_ttl ELSE ttl

\* the entry that setex(full_key, ttl, serialized_value) writes
Entry(value, ttl, category) ==
    [ser |-> json_dumps(value), exp |-> cache_time + EffectiveTtl(ttl),
     value |-> value, cat |-> category]

\* the shape every operation shares: the is_connected check, the service call
\* inside try, and except Exception returning the operation's empty result
CacheOp(op, key, keys, category, failed, ret, store) ==
    /\ cache_ops < MaxCacheOps
    /\ failed => is_connected
    /\ cache_ops' = cache_ops + 1
    /\ cache_ret' = [op |-> op, key |-> key, keys |-> keys, cat |-> category,
                     at |-> cache_time, conn |-> is_connected, failed |-> failed, raised |-> FALSE,
                     ret |-> IF is_connected /\ ~failed THEN ret ELSE EmptyRet]
    /\ redis_store' = IF is_connected /\ ~failed THEN store ELSE redis_store
    /\ UNCHANGED <<notCache, redis_available, redis_client, is_connected, cache_time>>

\* CacheManager.connect as get_cache_manager calls it, which swallows what it
\* raises.  outcome: ok, url (from_url raises) or ping (ping raises)
connect(outcome) ==
    /\ ~is_connected
    /\ IF ~redis_available
       THEN /\ outcome = "ok"
            /\ is_connected' = FALSE
            /\ UNCHANGED redis_client
       ELSE /\ redis_client' = IF outcome = "url" THEN redis_client ELSE "client"
            /\ is_connected' = (outcome = "ok")
    /\ UNCHANGED <<notCache, redis_available, redis_store, cache_time, cache_ops,
                   cache_ret>>

\* CacheManager.disconnect; when close() raises is_connected keeps its value
disconnect(raises) ==
    /\ redis_client # "none"
    /\ is_connected' = IF raises THEN is_connected ELSE FALSE
    /\ UNCHANGED <<notCache, redis_available, redis_client, redis_store, cache_time,
                   cache_ops, cache_ret>>

\* CacheManager.set
cache_set(key, value, ttl, category, failed) ==
    CacheOp("set", key, {}, category, failed, Ret(TRUE, 0, NoValue, {}),
            [redis_store EXCEPT ![build_key(key, category)] =
                Entry(value, ttl, category)])

\* CacheManager.get
cache_get(key, category, failed) ==
    LET fk == build_key(key, category) IN
    CacheOp("get", key, {}, category, failed,
            IF Live(fk) THEN Ret(FALSE, 0, json_loads(redis_store[fk].ser), {})
            ELSE EmptyRet,
            redis_store)

\* CacheManager.delete: result > 0
cache_delete(key, category, failed) ==
    LET fk == build_key(key, category) IN
    CacheOp("delete", key, {}, category, failed, Ret(Live(fk), 0, NoValue, {}),
            [redis_store EXCEPT ![fk] = NoEntry])

\* CacheManager.exists: result > 0
cache_exists(key, category, failed) ==
    CacheOp("exists", key, {}, category, failed,
            Ret(Live(build_key(key, category)), 0, NoValue, {}), redis_store)

\* CacheManager.get_multiple: the keys that hit, each with its decoded value
get_multiple(keys, category, failed) ==
    /\ failed => keys # {}
    /\ CacheOp("get_multiple", "", keys, category, failed,
               Ret(FALSE, 0, NoValue,
                   { <<k, json_loads(redis_store[build_key(k, category)].ser)>> :
                       k \in {x \in keys : Live(build_key(x, category))} }),
               redis_store)

\* a mutant of set_multiple_count: the count is taken before execute()
set_multiple_count_early(data, executed) == Cardinality(DOMAIN data)

\* CacheManager.set_multiple: success_count is len(data) once execute() returned
set_multiple_count(data, executed) ==
    IF executed THEN Cardinality(DOMAIN data) ELSE 0

\* CacheManager.set_multiple
set_multiple(data, ttl, category, failed) ==
    /\ cache_ops < MaxCacheOps
    /\ failed => is_connected /\ DOMAIN data # {}
    /\ cache_ops' = cache_ops + 1
    /\ LET called == is_connected /\ DOMAIN data # {} IN
       /\ cache_ret' = [op |-> "set_multiple", key |-> "", keys |-> DOMAIN data,
                        cat |-> category, at |-> cache_time, conn |-> is_connected,
                        failed |-> failed, raised |-> FALSE,
                        ret |-> IF called
                                THEN Ret(FALSE, set_multiple_count(data, ~failed),
                                         NoValue, {})
                                ELSE EmptyRet]
       /\ redis_store' =
            IF called /\ ~failed
            THEN [fk \in FullKeys |->
                    IF \E k \in DOMAIN data : fk = build_key(k, category)
                    THEN Entry(data[fk[2]], ttl, category)
                    ELSE redis_store[fk]]
            ELSE redis_store
    /\ UNCHANGED <<notCache, redis_available, redis_client, is_connected, cache_time>>

\* the keys pattern of the model: "*" or one key
Patterns == CacheKeys \cup {"*"}

\* what keys(full_pattern) returns: the live full keys that match
Matching(pattern, category) ==
    { fk \in FullKeys : /\ Live(fk)
                        /\ fk[1] = key_prefixes(category)
                        /\ pattern \in {"*", fk[2]} }

\* CacheManager.invalidate_pattern
invalidate_pattern(pattern, category, failed) ==
    CacheOp("invalidate_pattern", pattern, {}, category, failed,
            Ret(FALSE, Cardinality(Matching(pattern, category)), NoValue, {}),
            [fk \in FullKeys |->
                IF fk \in Matching(pattern, category) THEN NoEntry
                ELSE redis_store[fk]])

\* a second of the cache service's clock passes
cache_tick ==
    /\ cache_time < MaxCacheTime
    /\ cache_time' = cache_time + 1
    /\ UNCHANGED <<notCache, redis_available, redis_client, is_connected, redis_store,
                   cache_ops, cache_ret>>

\* the rest of the program stands still while the cache is exercised
InitCache ==
    /\ OrchAtRest /\ InitBatchProcessor /\ InitRateLimiter /\ MsAtRest
    /\ ValAtRest /\ ProcAtRest /\ ExpAtRest /\ CfgAtRest /\ FileAtRest /\ RestAtRest
    /\ redis_available \in BOOLEAN
    /\ redis_client = "none"
    /\ is_connected = FALSE
    /\ redis_store = [fk \in FullKeys |-> NoEntry]
    /\ cache_time = 0
    /\ cache_ops = 0
    /\ cache_ret = NoCall

\* every operation, connected or not, its service call working or failing;
\* the clock stands still and one value is written
NextCache ==
    \/ \E outcome \in {"ok", "url", "ping"} : connect(outcome)
    \/ \E raises \in BOOLEAN : disconnect(raises)
    \/ \E k \in CacheKeys, c \in Categories, failed \in BOOLEAN :
          cache_set(k, [type |-> "str", body |-> "a"], 0, c, failed)
    \/ \E k \in CacheKeys, c \in Categories, failed \in BOOLEAN : cache_get(k, c, failed)
    \/ \E k \in CacheKeys, c \in Categories, failed \in BOOLEAN :
          cache_delete(k, c, failed)
    \/ \E k \in CacheKeys, c \in Categories, failed \in BOOLEAN :
          cache_exists(k, c, failed)
    \/ \E ks \in SUBSET CacheKeys, c \in Categories, failed \in BOOLEAN :
          get_multiple(ks, c, failed)
    \/ \E ks \in SUBSET CacheKeys, c \in Categories, failed \in BOOLEAN :
          set_multiple([k \in ks |-> [type |-> "str", body |-> "a"]], 0, c, failed)
    \/ \E pat \in Patterns, c \in Categories, failed \in BOOLEAN :
          invalidate_pattern(pat, c, failed)

SpecCache == InitCache /\ [][NextCache]_vars

\* a connected manager: the values, ttls and the clock vary
InitRoundTrip ==
    /\ InitCache
    /\ redis_available

NextRoundTrip ==
    \/ connect("ok")
    \/ \E k \in CacheKeys, v \in PyValues, ttl \in 0..MaxTtl, c \in Categories,
          failed \in BOOLEAN : cache_set(k, v, ttl, c, failed)
    \/ \E k \in CacheKeys, c \in Categories, failed \in BOOLEAN : cache_get(k, c, failed)
    \/ \E k \in CacheKeys, c \in Categories : cache_delete(k, c, FALSE)
    \/ \E pat \in Patterns, c \in Categories : invalidate_pattern(pat, c, FALSE)
    \/ cache_tick

SpecRoundTrip == InitRoundTrip /\ [][NextRoundTrip]_vars

\* C21: an operation called while the manager is not connected, or whose
\* service call fails, returns its empty result (False, None, {} or 0) and
\* does not raise
C21_FailsSoft ==
    (cache_ret.op # "none" /\ (~cache_ret.conn \/ cache_ret.failed))
        => (cache_ret.ret = EmptyRet /\ ~cache_ret.raised)

\* a set_multiple of two entries whose execute() failed
C21_Witness ==
    /\ cache_ret.op = "set_multiple"
    /\ cache_ret.conn /\ cache_ret.failed
    /\ Cardinality(cache_ret.keys) = 2

\* an operation called after a disconnect, the client still held
C21_WitnessDisconnected ==
    /\ cache_ret.op = "get"
    /\ ~cache_ret.conn
    /\ redis_client = "client"

\* the last operation was a get that reached the service and was answered
ServedGet == cache_ret.op = "get" /\ cache_ret.conn /\ ~cache_ret.failed

\* the entry under the full key of the last get, and whether the set that
\* wrote it had the get's category and has not expired at the get
GetEntry == redis_store[build_key(cache_ret.key, cache_ret.cat)]
GetEntryFresh ==
    /\ GetEntry # NoEntry
    /\ GetEntry.cat = cache_ret.cat
    /\ cache_ret.at < GetEntry.exp

\* the types that JSON has, which json.loads gives back
JsonTypes == {"str", "list"}

\* C22 as stated: a get of a key that holds no entry returns no value, and a
\* get that follows a successful set of the key, before the ttl is over and
\* with no delete or invalidation in between, returns the value that was set
C22_GetReturnsWhatWasSet ==
    ServedGet =>
        /\ GetEntry = NoEntry => cache_ret.ret.v = NoValue
        /\ GetEntryFresh => cache_ret.ret.v = GetEntry.value

\* C22 for values of JSON's own types: a get of a key that holds no entry
\* returns no value, and a get that follows a successful set of a str or a
\* list, before the ttl is over and with no delete or invalidation in
\* between, returns the value that was set; a value of another type comes
\* back as what json.loads makes of its text
C22_GetReturnsJsonOfWhatWasSet ==
    ServedGet =>
        /\ GetEntry = NoEntry => cache_ret.ret.v = NoValue
        /\ GetEntryFresh =>
              /\ cache_ret.ret.v = json_loads(json_dumps(GetEntry.value))
              /\ GetEntry.value.type \in JsonTypes
                    => cache_ret.ret.v = GetEntry.value

\* a get, a second after the set, that returned the list that was set
C22_Witness ==
    /\ ServedGet /\ GetEntryFresh
    /\ GetEntry.value.type = "list"
    /\ cache_ret.at > 0
    /\ cache_ret.ret.v = GetEntry.value

\* a get of a key that was never set
C22_WitnessMiss == ServedGet /\ GetEntry = NoEntry /\ cache_ops = 1

(***************************************************************************)
(* The data validator (utils/data_validator.py).  A title is a sequence of *)
(* the characters "a" and " "; the bracketed marks that _clean_title also  *)
(* removes, and the fields genres, casts and directors, are left out.  A   *)
(* rating is in tenths, a quality score in 1/32.                           *)
(***************************************************************************)
Levels == {"strict", "moderate", "lenient"}

RECURSIVE LStrip(_)
LStrip(s) == IF s # <<>> /\ Head(s) = " " THEN LStrip(Tail(s)) ELSE s

RECURSIVE RStrip(_)
RStrip(s) ==
    IF s # <<>> /\ s[Len(s)] = " " THEN RStrip(SubSeq(s, 1, Len(s) - 1)) ELSE s

\* str.strip()
Strip(s) == RStrip(LStrip(s))

\* re.sub(r'\s+', ' ', title)
RECURSIVE Collapse(_)
Collapse(s) ==
    IF Len(s) < 2 THEN s
    ELSE IF s[1] = " " /\ s[2] = " " THEN Collapse(Tail(s))
    ELSE <<Head(s)>> \o Collapse(Tail(s))

\* DataValidator._clean_title
clean_title(title) == Strip(Collapse(Strip(title)))

\* what a field validator returns: is_valid, the cleaned value (set is false
\* for None), the errors and the warnings
FieldResult(ok, set, value, errors, warnings) ==
    [ok |-> ok, set |-> set, value |-> value, errors |-> errors, warnings |-> warnings]

\* DataValidator._validate_title, for a title that is a str
validate_title(title) ==
    LET cleaned == clean_title(title.s) IN
    IF cleaned = <<>>
    THEN FieldResult(FALSE, FALSE, title, <<"title is empty">>, <<>>)
    ELSE IF Len(cleaned) < 2
    THEN FieldResult(FALSE, TRUE, Str(cleaned), <<"title is too short">>, <<>>)
    ELSE FieldResult(TRUE, TRUE, Str(cleaned), <<>>, <<>>)

\* DataValidator._validate_year
validate_year(year) ==
    IF year.k = "none" THEN FieldResult(TRUE, FALSE, year, <<>>, <<"year is empty">>)
    ELSE IF year.k = "text"
    THEN FieldResult(FALSE, FALSE, year, <<"year format is invalid">>, <<>>)
    ELSE IF year.n < 1900
    THEN FieldResult(FALSE, TRUE, year, <<"year is too early">>, <<>>)
    ELSE IF year.n > current_year + 2
    THEN FieldResult(FALSE, TRUE, year, <<"year is in the future">>, <<>>)
    ELSE IF year.n > current_year
    THEN FieldResult(TRUE, TRUE, year, <<>>, <<"year is a future year">>)
    ELSE FieldResult(TRUE, TRUE, year, <<>>, <<>>)

\* DataValidator._validate_rating
validate_rating(rating) ==
    IF rating.k = "none"
    THEN FieldResult(TRUE, FALSE, rating, <<>>, <<"rating is empty">>)
    ELSE IF rating.k = "text"
    THEN FieldResult(FALSE, FALSE, rating, <<"rating format is invalid">>, <<>>)
    ELSE IF rating.n < 0
    THEN FieldResult(FALSE, TRUE, rating, <<"rating is negative">>, <<>>)
    ELSE IF rating.n > 100
    THEN FieldResult(FALSE, TRUE, rating, <<"rating is above 10">>, <<>>)
    ELSE IF rating.n = 0
    THEN FieldResult(TRUE, TRUE, rating, <<>>, <<"rating is 0">>)
    ELSE FieldResult(TRUE, TRUE, rating, <<>>, <<>>)

\* DataValidator._validate_summary, for a summary that is a str of n characters
validate_summary(summary) ==
    IF summary.n = 0 THEN FieldResult(TRUE, TRUE, summary, <<>>, <<"summary is empty">>)
    ELSE IF summary.n < 10
    THEN FieldResult(TRUE, TRUE, summary, <<>>, <<"summary is too short">>)
    ELSE IF summary.n > 2000
    THEN FieldResult(TRUE, TRUE, summary, <<>>, <<"summary is too long">>)
    ELSE FieldResult(TRUE, TRUE, summary, <<>>, <<>>)

\* DataValidator._validate_episodes_count
validate_episodes_count(episodes) ==
    IF episodes.k = "none"
    THEN FieldResult(TRUE, FALSE, episodes, <<>>, <<"episodes is empty">>)
    ELSE IF episodes.k = "text"
    THEN FieldResult(FALSE, FALSE, episodes, <<"episodes format is invalid">>, <<>>)
    ELSE IF episodes.n < 1
    THEN FieldResult(FALSE, TRUE, episodes, <<"episodes is below 1">>, <<>>)
    ELSE IF episodes.n > 200
    THEN FieldResult(TRUE, TRUE, episodes, <<>>, <<"too many episodes">>)
    ELSE FieldResult(TRUE, TRUE, episodes, <<>>, <<>>)

\* field_validators, in the order of the dict
ValidatedFields == <<"title", "year", "rating", "summary", "episodes_count">>

FieldValidator(field, value) ==
    CASE field = "title" -> validate_title(value)
      [] field = "year" -> validate_year(value)
      [] field = "rating" -> validate_rating(value)
      [] field = "summary" -> validate_summary(value)
      [] field = "episodes_count" -> validate_episodes_count(value)

\* a field's errors count as errors only at the strict level,
\* and as warnings otherwise
Escalated(ok, level) == ~ok /\ level = "strict"

\* one round of the loop over field_validators
ApplyField(acc, field, data, level) ==
    IF data[field].k = "absent" THEN acc
    ELSE LET r == FieldValidator(field, data[field]) IN
         [errors |-> IF Escalated(r.ok, level) THEN acc.errors \o r.errors
                     ELSE acc.errors,
          warnings |-> (IF Escalated(r.ok, level) THEN acc.warnings
                        ELSE acc.warnings \o r.errors) \o r.warnings,
          cleaned_data |-> IF r.set THEN [acc.cleaned_data EXCEPT ![field] = r.value]
                           ELSE acc.cleaned_data]

RECURSIVE ApplyFields(_, _, _, _)
ApplyFields(acc, i, data, level) ==
    IF i > Len(ValidatedFields) THEN acc
    ELSE ApplyFields(ApplyField(acc, ValidatedFields[i], data, level), i + 1, data, level)

\* not data.get(field), for id and title
Missing(text) == text.k = "absent" \/ text.s = <<>>

\* the errors of the required-field loop
RequiredErrors(data) ==
    (IF Missing(data.id) THEN <<"missing field id">> ELSE <<>>)
    \o (IF Missing(data.title) THEN <<"missing field title">> ELSE <<>>)

\* bool(value) for a numeric field
Truthy(value) == (value.k = "num" /\ value.n # 0) \/ value.k = "text"

\* DataValidator._validate_data_consistency: the warnings (it finds no errors)
ConsistencyWarnings(data) ==
    IF /\ data.year.k = "num" /\ data.year.n # 0
       /\ data.rating.k = "num" /\ data.rating.n # 0
       /\ data.year.n < 2000 /\ data.rating.n > 90
    THEN <<"early work with a very high rating">>
    ELSE <<>>

\* DataValidator._calculate_completeness, times 8:
\* data.get(field) and str(data[field]).strip()
FilledFields(data) ==
    Cardinality({f \in {"year", "rating", "episodes_count"} : Truthy(data[f])})
    + (IF data.title.k = "str" /\ Strip(data.title.s) # <<>> THEN 1 ELSE 0)
    + (IF data.summary.k = "num" /\ data.summary.n > 0 THEN 1 ELSE 0)

\* DataValidator._calculate_quality_score, times 32:
\* (10 - 2 errors - 0.5 warnings) * (0.5 + 0.5 * filled / 8), cut to 0..10
calculate_quality_score(data, errors, warnings) ==
    LET score == (20 - 4 * Len(errors) - Len(warnings)) * (8 + FilledFields(data)) IN
    IF score < 0 THEN 0 ELSE IF score > 320 THEN 320 ELSE score

\* DataValidator.validate_drama_data
ValidateDrama(data, level) ==
    LET acc == ApplyFields([errors |-> RequiredErrors(data), warnings |-> <<>>,
                            cleaned_data |-> data], 1, data, level)
        warnings == acc.warnings \o ConsistencyWarnings(acc.cleaned_data)
    IN [is_valid |-> acc.errors = <<>>,
        errors |-> acc.errors,
        warnings |-> warnings,
        cleaned_data |-> acc.cleaned_data,
        quality_score |-> calculate_quality_score(acc.cleaned_data, acc.errors, warnings)]

\* drama_processing_pipeline: the validator at the moderate level; the text
\* processing adds fields to the cleaned record and changes none of these
PipelineResult(data) ==
    LET r == ValidateDrama(data, "moderate") IN
    IF ~r.is_valid
    THEN [status |-> "failed", errors |-> r.errors, data |-> data, quality_score |-> 0]
    ELSE [status |-> "success", errors |-> <<>>, data |-> r.cleaned_data,
          quality_score |-> r.quality_score]

\* a call of validate_drama_data
validate_drama_data ==
    /\ val_pc = "idle"
    /\ val_result' = ValidateDrama(val_data, validation_level)
    /\ val_pc' = "validated"
    /\ UNCHANGED <<notVal, val_data, validation_level, pipe_result>>

\* a call of drama_processing_pipeline
drama_processing_pipeline ==
    /\ val_pc = "idle"
    /\ val_result' = ValidateDrama(val_data, "moderate")
    /\ pipe_result' = PipelineResult(val_data)
    /\ val_pc' = "piped"
    /\ UNCHANGED <<notVal, val_data, validation_level>>

\* the records of the model
Chars == {"a", " "}
Titles == {NoStr} \cup {Str(s) : s \in UNION {[1..n -> Chars] : n \in 0..MaxTitleLen}}
Ids == {NoStr, Str(<<>>), Str(<<"a">>)}
Years == {Absent, None, BadText} \cup
         {Num(y) : y \in {1899, 1900, 1999, current_year + 2, current_year + 3,
                          current_year + 5}}
Ratings == {Absent, None, BadText} \cup {Num(r) : r \in {0 - 10, 0, 95, 100, 101, 150}}
Summaries == {Absent, Num(12)}
Episodes == {Absent, Num(0), Num(1)}
Records ==
    {DramaData(id, title, year, rating, summary, episodes, Absent) :
        id \in Ids, title \in Titles, year \in Years, rating \in Ratings,
        summary \in Summaries, episodes \in Episodes}

InitValidate ==
    /\ OrchAtRest /\ InitBatchProcessor /\ InitRateLimiter /\ MsAtRest /\ CacheAtRest
    /\ ProcAtRest /\ ExpAtRest /\ CfgAtRest /\ FileAtRest /\ RestAtRest
    /\ val_data \in Records
    /\ validation_level \in Levels
    /\ val_pc = "idle"
    /\ val_result = NoResult
    /\ pipe_result = NoPipe

NextValidate ==
    \/ validate_drama_data
    \/ drama_processing_pipeline

SpecValidate == InitValidate /\ [][NextValidate]_vars

\* an error of the result is the given one
HasError(e) == \E i \in 1..Len(val_result.errors) : val_result.errors[i] = e

\* C23: validate_drama_data marks a record invalid, with an error about the
\* bound, when its rating is above 10 or its year is after the current year
\* plus 2, and marks a record with an empty title invalid at every level
C23_OutOfRangeIsInvalid ==
    val_pc = "validated" =>
        /\ (val_data.rating.k = "num" /\ val_data.rating.n > 100)
              => (~val_result.is_valid /\ HasError("rating is above 10"))
        /\ (val_data.year.k = "num" /\ val_data.year.n > current_year + 2)
              => (~val_result.is_valid /\ HasError("year is in the future"))
        /\ (val_data.title = Str(<<>>)) => ~val_result.is_valid

\* the cleaned value of a numeric field is absent or a number in the range
InRange(value, lo, hi) == value.k = "absent" \/ (value.k = "num" /\ value.n \in lo..hi)

\* the record has an id and a title and its numeric fields are in range
WellFormed(data) ==
    /\ ~Missing(data.id)
    /\ ~Missing(data.title)
    /\ InRange(data.year, 1900, current_year + 2)
    /\ InRange(data.rating, 0, 100)
    /\ data.episodes_count.k = "absent"
          \/ (data.episodes_count.k = "num" /\ data.episodes_count.n >= 1)

\* C24: a record that validate_drama_data reports valid, at any level, or that
\* the pipeline returns with status success has a non-empty id and title and
\* cleaned numeric fields within range
C24_AcceptedIsWellFormed ==
    /\ (val_pc = "validated" /\ val_result.is_valid) => WellFormed(val_result.cleaned_data)
    /\ (val_pc = "piped" /\ pipe_result.status = "success") => WellFormed(pipe_result.data)

(***************************************************************************)
(* The processing stage (DramaOrchestrator._process_data).  The batch job  *)
(* applies the drama pipeline to each record in turn; an item whose        *)
(* processor raises leaves None in the job's results.  The stage then      *)
(* keeps the processed_data of the results with status success and filters *)
(* them by quality.                                                        *)
(***************************************************************************)
\* what _process_batch puts in the results for an item that raised
NonePipe == [status |-> "None", errors |-> <<>>, data |-> NoData, quality_score |-> 0]

\* the collected records of the model: a complete record, a sparse one and one
\* without id, each as collected or carrying a quality_score field of its own
ProcRecords ==
    {DramaData(id, Str(<<"a", "a">>), more[1], more[2], more[3], more[4], own) :
        id \in {NoStr, Str(<<"a">>)},
        more \in {<<Num(2000), Num(95), Num(12), Num(1)>>,
                  <<Absent, Absent, Absent, Absent>>},
        own \in {Absent, Num(320)}}

\* quality_threshold values: 0, 5.0 and 7.0 (the default), in 1/32
Thresholds == {0, 160, 224}

RECURSIVE SelectData(_, _)
\* [r.data for r in rs if keep(r)], keep given as the set of kept indexes
SelectData(rs, kept) ==
    IF rs = <<>> THEN <<>>
    ELSE SelectData(SubSeq(rs, 1, Len(rs) - 1), kept)
         \o (IF Len(rs) \in kept THEN <<rs[Len(rs)].data>> ELSE <<>>)

\* the loop at lines 301-304: result and result.get('status') == 'success'
SuccessData(rs) ==
    SelectData(rs, {i \in 1..Len(rs) : rs[i].status = "success"})

\* drama.get('quality_score', 0): the field of the processed record itself
OwnScore(drama) ==
    IF drama.quality_score.k = "num" THEN drama.quality_score.n ELSE 0

\* the quality filter at lines 312-322
QualityFiltered(data, threshold) ==
    IF data # <<>> /\ threshold > 0
    THEN SelectSeq(data, LAMBDA drama : OwnScore(drama) >= threshold)
    ELSE data

\* _process_data is entered: no records, or the batch job is submitted
process_data_start ==
    /\ proc_pc = "idle"
    /\ IF raw_data = <<>>
       THEN proc_pc' = "done" /\ processed_data' = <<>>
       ELSE proc_pc' = "batch" /\ UNCHANGED processed_data
    /\ UNCHANGED <<notProc, raw_data, quality_threshold, job_results>>

\* the batch job processes its next item
pipeline_item(raises) ==
    /\ proc_pc = "batch"
    /\ Len(job_results) < Len(raw_data)
    /\ job_results' = Append(job_results,
                             IF raises THEN NonePipe
                             ELSE PipelineResult(raw_data[Len(job_results) + 1]))
    /\ UNCHANGED <<notProc, raw_data, quality_threshold, proc_pc, processed_data>>

\* the job's status is completed: the results are read and filtered
process_data_completed ==
    /\ proc_pc = "batch"
    /\ Len(job_results) = Len(raw_data)
    /\ processed_data' = QualityFiltered(SuccessData(job_results), quality_threshold)
    /\ proc_pc' = "done"
    /\ UNCHANGED <<notProc, raw_data, quality_threshold, job_results>>

\* the job's status is failed: the stage returns nothing
process_data_failed ==
    /\ proc_pc = "batch"
    /\ processed_data' = <<>>
    /\ proc_pc' = "failed"
    /\ UNCHANGED <<notProc, raw_data, quality_threshold, job_results>>

InitProcess ==
    /\ OrchAtRest /\ InitBatchProcessor /\ InitRateLimiter /\ MsAtRest /\ CacheAtRest
    /\ ValAtRest /\ ExpAtRest /\ CfgAtRest /\ FileAtRest /\ RestAtRest
    /\ raw_data \in UNION {[1..n -> ProcRecords] : n \in 0..MaxRaw}
    /\ quality_threshold \in Thresholds
    /\ proc_pc = "idle"
    /\ job_results = <<>>
    /\ processed_data = <<>>

NextProcess ==
    \/ process_data_start
    \/ \E raises \in BOOLEAN : pipeline_item(raises)
    \/ process_data_completed
    \/ process_data_failed

SpecProcess == InitProcess /\ [][NextProcess]_vars

\* the records whose pipeline result has status success and a quality score
\* of at least the threshold
MeetThreshold ==
    SelectData(job_results,
               {i \in 1..Len(job_results) :
                    /\ job_results[i].status = "success"
                    /\ job_results[i].quality_score >= quality_threshold})

\* C25: with a quality threshold above 0, the stage returns exactly the
\* records whose pipeline result has status success and whose quality score
\* is at least the threshold
C25_KeepsRecordsMeetingThreshold ==
    (proc_pc = "done" /\ quality_threshold > 0) => processed_data = MeetThreshold

(***************************************************************************)
(* The export manager (export/data_exporter.py).  A record is a name; the  *)
(* export_info record that export_data puts in front is "export_info".     *)
(* "ftp" stands for a format name that self.exporters lacks.               *)
(***************************************************************************)
exporters == {"json", "csv", "xlsx", "xml"}
RequestedFormats == {"json", "csv", "ftp"}

\* export_data = data.copy() and, with include_metadata, insert(0, export_metadata)
ExportCopy(data, include) ==
    IF include THEN <<"export_info">> \o data ELSE data

\* a mutant of CallerList: no copy is taken, export_data is the caller's list
CallerListShared(data, export_data) == export_data

\* the caller's list after a round: the round worked on a copy
CallerList(data, export_data) == data

\* the ExportMetadata an exporter returns (record_count=len(data) in each of
\* them), with compression set by CompressedExporter
ExportMetadata(format_type, data, compressed) ==
    [format_type |-> format_type, record_count |-> Len(data),
     compression |-> IF compressed THEN "gzip" ELSE "none"]

\* a mutant of AfterSkip: a round that is skipped ends the loop
AfterSkipBreak(i, n) == n + 1

\* continue: the round after one that was skipped
AfterSkip(i, n) == i + 1

\* BaseExporter.export: output_dir / filename when the caller passes a
\* filename, and otherwise the name _generate_filename makes of the second of
\* the call and the extension of the format (stamp stands for the second)
FilePath(filename, format_type, stamp) ==
    IF filename # ""
    THEN [base |-> filename, stamp |-> 0, ext |-> "", gz |-> FALSE]
    ELSE [base |-> "dramas", stamp |-> stamp, ext |-> format_type, gz |-> FALSE]

\* export_compressed: original_path.with_suffix(original_path.suffix + ".gz")
CompressedPath(path) == [path EXCEPT !.gz = TRUE]

\* what an exporter writes: the serialization of the list in its format, whole
\* or cut short by an exception, gzipped or not
FileContent(format_type, call, whole, gz) ==
    [format |-> format_type, call |-> call, whole |-> whole, gz |-> gz]

\* _calculate_checksum: the md5 of the content of a file
calculate_checksum(content) == [md5_of |-> content]

\* open(file_path, 'w') and the writes that follow; Path.unlink
WriteFile(fs, path, content) ==
    {f \in fs : f.path # path} \cup {[path |-> path, content |-> content]}

Unlink(fs, path) == {f \in fs : f.path # path}

\* a round that succeeds: the exporter writes its file; with compress,
\* export_compressed writes the gzipped file beside it and unlinks the
\* original; file_path and checksum are those of the file that is left
ExportedFile(fs, filename, format_type, call, compressed) ==
    LET path == FilePath(filename, format_type, call)
        written == WriteFile(fs, path, FileContent(format_type, call, TRUE, FALSE))
        packed == FileContent(format_type, call, TRUE, TRUE)
    IN IF compressed
       THEN [fs |-> Unlink(WriteFile(written, CompressedPath(path), packed), path),
             file_path |-> CompressedPath(path),
             checksum |-> calculate_checksum(packed)]
       ELSE [fs |-> written, file_path |-> path,
             checksum |-> calculate_checksum(FileContent(format_type, call, TRUE, FALSE))]

\* export_data is called; it raises ValueError on an empty list
export_data ==
    /\ exp_pc \in {"idle", "done", "raised"}
    /\ exp_calls < MaxExportCalls
    /\ exp_calls' = exp_calls + 1
    /\ exp_given' = exp_data
    /\ exp_pc' = IF exp_data = <<>> THEN "raised" ELSE "loop"
    /\ exp_i' = 1
    /\ exp_results' = <<>>
    /\ exp_log' = <<>>
    /\ history_before' = export_history
    /\ exp_files' = <<>>
    /\ UNCHANGED <<notExp, exp_data, exp_formats, include_metadata, compress,
                   export_history, exp_filename, exp_fs>>

\* one round of the loop: the format is unsupported, or its exporter (and the
\* compression after it) returns or raises; wrote: the exporter had opened
\* its file for writing when it raised
export_format(raises, wrote) ==
    /\ exp_pc = "loop"
    /\ exp_i <= Len(exp_formats)
    /\ wrote => raises
    /\ LET format_type == exp_formats[exp_i]
           copy == ExportCopy(exp_data, include_metadata)
           metadata == ExportMetadata(format_type, copy, compress)
           file == ExportedFile(exp_fs, exp_filename, format_type, exp_calls, compress)
       IN IF format_type \notin exporters
          THEN /\ ~raises
               /\ exp_log' = Append(exp_log, [format |-> format_type,
                                              outcome |-> "unsupported"])
               /\ exp_i' = AfterSkip(exp_i, Len(exp_formats))
               /\ UNCHANGED <<exp_data, exp_results, export_history, exp_fs, exp_files>>
          ELSE IF raises
          THEN /\ exp_log' = Append(exp_log, [format |-> format_type,
                                              outcome |-> "raised"])
               /\ exp_i' = AfterSkip(exp_i, Len(exp_formats))
               /\ exp_data' = CallerList(exp_data, copy)
               /\ exp_fs' = IF wrote
                            THEN WriteFile(exp_fs,
                                           FilePath(exp_filename, format_type, exp_calls),
                                           FileContent(format_type, exp_calls, FALSE, FALSE))
                            ELSE exp_fs
               /\ UNCHANGED <<exp_results, export_history, exp_files>>
          ELSE /\ exp_log' = Append(exp_log, [format |-> format_type, outcome |-> "ok"])
               /\ exp_i' = exp_i + 1
               /\ exp_data' = CallerList(exp_data, copy)
               /\ exp_results' = Append(exp_results, metadata)
               /\ export_history' = Append(export_history, metadata)
               /\ exp_fs' = file.fs
               /\ exp_files' = Append(exp_files, [file_path |-> file.file_path,
                                                  checksum |-> file.checksum])
    /\ UNCHANGED <<notExp, exp_given, exp_formats, include_metadata, compress, exp_pc,
                   history_before, exp_calls, exp_filename>>

\* the loop is over: export_data returns results
export_data_return ==
    /\ exp_pc = "loop"
    /\ exp_i > Len(exp_formats)
    /\ exp_pc' = "done"
    /\ UNCHANGED <<notExp, exp_data, exp_given, exp_formats, include_metadata, compress,
                   exp_i, exp_results, export_history, history_before, exp_log,
                   exp_calls, fileVars>>

\* the records a caller can pass: the first n of r1, r2, ...
RecordNames == <<"r1", "r2", "r3">>

\* a manager as constructed, and the arguments its caller passes, call after
\* call
InitExport ==
    /\ OrchAtRest /\ InitBatchProcessor /\ InitRateLimiter /\ MsAtRest /\ CacheAtRest
    /\ ValAtRest /\ ProcAtRest /\ CfgAtRest /\ RestAtRest
    /\ exp_data \in {SubSeq(RecordNames, 1, n) : n \in 0..MaxRecords}
    /\ exp_given = <<>>
    /\ exp_formats \in UNION {[1..n -> RequestedFormats] : n \in 0..MaxFormats}
    /\ include_metadata \in BOOLEAN
    /\ compress \in BOOLEAN
    /\ exp_pc = "idle"
    /\ exp_i = 1
    /\ exp_results = <<>>
    /\ export_history = <<>>
    /\ history_before = <<>>
    /\ exp_log = <<>>
    /\ exp_calls = 0
    /\ exp_filename \in {"", "collection"}
    /\ exp_fs = {}
    /\ exp_files = <<>>

NextExport ==
    \/ export_data
    \/ \E raises \in BOOLEAN, wrote \in BOOLEAN : export_format(raises, wrote)
    \/ export_data_return

SpecExport == InitExport /\ [][NextExport]_vars

\* C26: every ExportMetadata of a call on N >= 1 records reports
\* record_count N + 1 with include_metadata and N without, and the caller's
\* list is what it was at the call
C26_RecordCountAndCallerList ==
    exp_pc \in {"loop", "done"} =>
        /\ \A k \in 1..Len(exp_results) :
              exp_results[k].record_count =
                  Len(exp_given) + (IF include_metadata THEN 1 ELSE 0)
        /\ exp_data = exp_given

\* a call on two records with include_metadata returned two ExportMetadata
C26_Witness ==
    /\ exp_pc = "done"
    /\ include_metadata
    /\ Len(exp_given) = 2
    /\ Len(exp_results) = 2
    /\ exp_results[1].record_count = 3

\* the formats of the rounds that succeeded, in order
RECURSIVE Succeeded(_)
Succeeded(log) ==
    IF log = <<>> THEN <<>>
    ELSE Succeeded(SubSeq(log, 1, Len(log) - 1))
         \o (IF log[Len(log)].outcome = "ok" THEN <<log[Len(log)].format>> ELSE <<>>)

\* C27: a call on a non-empty list attempts every requested format, an
\* unsupported name or a raising exporter only skipping its round, and the
\* list returned and the entries added to the export history are one
\* ExportMetadata per format that succeeded
C27_EveryFormatAttempted ==
    exp_pc = "done" =>
        /\ [k \in 1..Len(exp_log) |-> exp_log[k].format] = exp_formats
        /\ \A k \in 1..Len(exp_log) :
              (exp_log[k].format \notin exporters) <=> (exp_log[k].outcome = "unsupported")
        /\ [k \in 1..Len(exp_results) |-> exp_results[k].format_type] = Succeeded(exp_log)
        /\ export_history = history_before \o exp_results

\* the first round was skipped and the second succeeded, on a second call
C27_Witness ==
    /\ exp_pc = "done"
    /\ Len(exp_log) = 2
    /\ exp_log[1].outcome # "ok"
    /\ exp_log[2].outcome = "ok"
    /\ history_before # <<>>

\* the formats of the request are supported and differ from each other
DistinctSupportedFormats ==
    /\ Range(exp_formats) \subseteq exporters
    /\ \A k, l \in DOMAIN exp_formats : k # l => exp_formats[k] # exp_formats[l]

\* C35: after export_data returns for a request with several supported
\* formats, each entry of the result names an existing file of its own, and the
\* entry's checksum is that of the file now at its file_path, also when the
\* caller passed one filename for all formats
C35_EachResultHasItsOwnFile ==
    (exp_pc = "done" /\ DistinctSupportedFormats) =>
        /\ \A k \in DOMAIN exp_files :
              \E f \in exp_fs :
                  /\ f.path = exp_files[k].file_path
                  /\ calculate_checksum(f.content) = exp_files[k].checksum
        /\ \A k, l \in DOMAIN exp_files :
              k # l => exp_files[k].file_path # exp_files[l].file_path

(***************************************************************************)
(* The configuration manager (config/config_manager.py).  An update names  *)
(* some settings and a value for each.                                     *)
(***************************************************************************)
\* the updates of the model: the settings named and a value for each, its
\* default or one that breaks the hard constraint on it (values holds the
\* default for the settings that are not named)
Updates ==
    {u \in [keys : SUBSET DOMAIN SystemConfig,
            values : [database_host : {"localhost", ""}, database_port : {27017, 0},
                      batch_size : {10, 0},
                      validation_level : {"moderate", "thorough"},
                      collection_interval_hours : {6, 0}]] :
        \A k \in DOMAIN SystemConfig \ u.keys : u.values[k] = SystemConfig[k]}

\* ConfigManager._validate_config: the errors it collects; it raises
\* ValueError when there is one
validate_config_errors(c) ==
    {e \in {"database host", "database port", "batch size", "validation level",
            "collection interval"} :
        \/ e = "database host" /\ c.database_host = ""
        \/ e = "database port" /\ (c.database_port <= 0 \/ c.database_port > 65535)
        \/ e = "batch size" /\ c.batch_size <= 0
        \/ e = "validation level"
              /\ c.validation_level \notin {"strict", "moderate", "lenient"}
        \/ e = "collection interval" /\ c.collection_interval_hours <= 0}

\* ConfigManager._update_config_from_dict: setattr on the live objects
update_config_from_dict(c, updates) ==
    [k \in DOMAIN c |-> IF k \in updates.keys THEN updates.values[k] ELSE c[k]]

\* ConfigManager.update_config: the history entry, the update in place, then
\* the validation, which raises or not
update_config(updates) ==
    /\ Len(config_history) < MaxUpdates
    /\ config_history' = Append(config_history, live_config)
    /\ config_before' = live_config
    /\ live_config' = update_config_from_dict(live_config, updates)
    /\ update_raised' = (validate_config_errors(live_config') # {})
    /\ UNCHANGED notCfg

InitConfig ==
    /\ OrchAtRest /\ InitBatchProcessor /\ InitRateLimiter /\ MsAtRest /\ CacheAtRest
    /\ ValAtRest /\ ProcAtRest /\ ExpAtRest /\ CfgAtRest /\ FileAtRest /\ RestAtRest

NextConfig == \E updates \in Updates : update_config(updates)

SpecConfig == InitConfig /\ [][NextConfig]_vars

\* C28: an update_config whose result breaks a hard constraint is rejected:
\* the call raises and the live configuration is what it was before the call
C28_RaisedUpdateChangesNothing ==
    /\ (config_history # <<>> /\ validate_config_errors(live_config) # {}) => update_raised
    /\ update_raised => live_config = config_before

(***************************************************************************)
(* The life cycle of the orchestrator in the API process and under direct  *)
(* start() calls.  The API's lifespan awaits initialize() before the first *)
(* request is served and awaits shutdown() when the process ends; POST     *)
(* /orchestrator/start hands start() to a background task.                 *)
(***************************************************************************)

\* lifespan, up to the yield: no request is served before initialize() is done
lifespan_startup(outcome) ==
    /\ lifespan_pc = "off"
    /\ ~components_initialized
    /\ initialize_components(outcome)
    /\ lifespan_pc' = "serving"
    /\ UNCHANGED <<batchVars, notConn, executor_shutdown, now, config, current_job,
                   job_history, is_running, shutdown_requested, last_collection_time,
                   pc, tjob, items, resp>>

\* POST /orchestrator/start: answers "running" when is_running, and otherwise
\* queues start() as a background task
start_orchestrator(s) ==
    /\ lifespan_pc = "serving"
    /\ pc[s] = "off"
    /\ ~is_running
    /\ pc' = [pc EXCEPT ![s] = "queued"]
    /\ UNCHANGED <<batchVars, utilVars, lifeVars, now, config, state, current_job,
                   job_history, is_running, shutdown_requested, components_initialized,
                   last_collection_time, next_scheduled_time, tjob, items, resp>>

\* lifespan, after the yield: shutdown() returns at once when is_running is
\* False, and otherwise sets the state and waits for the current job
lifespan_shutdown ==
    /\ lifespan_pc = "serving"
    /\ IF is_running
       THEN /\ state' = "stopping"
            /\ lifespan_pc' = "closing"
       ELSE /\ lifespan_pc' = "closed"
            /\ UNCHANGED state
    /\ UNCHANGED <<batchVars, utilVars, monitoring_active, executor_shutdown,
                   cache_manager_set, now, config, current_job, job_history, is_running,
                   shutdown_requested, components_initialized, last_collection_time,
                   next_scheduled_time, pc, tjob, items, resp>>

lifespan_shutdown_done ==
    /\ lifespan_pc = "closing"
    /\ shutdown_components
    /\ lifespan_pc' = "closed"
    /\ UNCHANGED <<batchVars, notConn, redis_client, cache_manager_set, now, config,
                   current_job, job_history, shutdown_requested, components_initialized,
                   last_collection_time, next_scheduled_time, pc, tjob, items, resp>>

InitLife ==
    /\ now = 0
    /\ config \in [export_enabled : {TRUE}, scheduler_enabled : BOOLEAN]
    /\ components_initialized = FALSE
    /\ state = "idle"
    /\ current_job = 0
    /\ job_history = <<>>
    /\ is_running = FALSE
    /\ shutdown_requested = FALSE
    /\ last_collection_time = NoTime
    /\ next_scheduled_time = NoTime
    /\ pc = [t \in Tasks |-> IF t \in ApiTasks THEN "idle" ELSE "off"]
    /\ tjob = [t \in Tasks |-> 0]
    /\ items = [t \in Tasks |-> 0]
    /\ resp = 0
    /\ monitoring_active = FALSE
    /\ executor_shutdown = FALSE
    /\ cache_manager_set = FALSE
    /\ lifespan_pc \in {"none", "off"}
    /\ InitBatchProcessor /\ InitRateLimiter /\ MsAtRest
    /\ ValAtRest /\ ProcAtRest /\ ExpAtRest /\ CfgAtRest /\ FileAtRest /\ RestAtRest
    /\ redis_available \in BOOLEAN
    /\ redis_client = "none"
    /\ is_connected = FALSE
    /\ redis_store = [fk \in FullKeys |-> NoEntry]
    /\ cache_time = 0
    /\ cache_ops = 0
    /\ cache_ret = NoCall

ConnectOutcomes == {"ok", "ping", "url"}

NextLife ==
    \/ \E outcome \in ConnectOutcomes : lifespan_startup(outcome)
    \/ \E s \in Starters : start_orchestrator(s)
    \/ \E s \in Starters : start(s)
    \/ \E s \in Starters, outcome \in ConnectOutcomes : initialize_done(s, outcome)
    \/ \E s \in Starters : loop_exit(s)
    \/ \E s \in Starters : shutdown_done(s)
    \/ request_shutdown
    \/ lifespan_shutdown
    \/ lifespan_shutdown_done

SpecLife == InitLife /\ [][NextLife]_vars

\* a step in which a call of shutdown() returns: the one in the finally of
\* start(), or the one of the lifespan
ShutdownReturns ==
    \/ \E s \in Starters : pc[s] \in {"sleep", "wait_manual", "stopping"} /\ pc'[s] = "off"
    \/ lifespan_pc \in {"serving", "closing"} /\ lifespan_pc' = "closed"

AllStopped ==
    /\ state = "stopped"
    /\ ~monitoring_active
    /\ executor_shutdown
    /\ ~is_connected

\* C29: when shutdown() returns, after start() or from the API's lifespan after
\* initialize() alone, the state is stopped, the performance monitor is stopped,
\* the batch processor has been shut down and the cache is disconnected
C29_ShutdownStopsEverything == [][ShutdownReturns => AllStopped']_vars

\* the tasks inside the scheduler loop or the manual-trigger wait loop
InLoop == {s \in Starters : pc[s] \notin {"off", "queued", "initializing", "stopping"}}

\* a start() call or POST /orchestrator/start taken while is_running
StartWhileRunningHasNoEffect ==
    \A s \in Starters :
        (is_running /\ pc[s] \in {"off", "queued"} /\ pc'[s] # pc[s])
            => /\ pc'[s] = "off"
               /\ UNCHANGED <<state, is_running, shutdown_requested, components_initialized,
                              current_job, job_history, next_scheduled_time, lifeVars>>

\* C30: whatever the interleaving of POST /orchestrator/start requests and
\* direct start() calls, at most one scheduler loop or manual-trigger wait loop
\* is running, and a start issued while the orchestrator runs changes nothing
C30_AtMostOneLoop ==
    /\ [](Cardinality(InLoop) <= 1)
    /\ [][StartWhileRunningHasNoEffect]_vars


(***************************************************************************)
(* The scheduler loop: when it triggers a job, and what it does when the   *)
(* job raises.                                                             *)
(***************************************************************************)

\* a step in which _run_scheduler_loop calls run_collection_job
ScheduledTrigger ==
    /\ Len(job_history') = Len(job_history) + 1
    /\ job_history'[Len(job_history')].trigger = "scheduled"

\* a step in which a run_collection_job call returns without raising
JobSucceeds ==
    \E i \in DOMAIN job_history :
        job_history[i].exit = "none" /\ job_history'[i].exit = "return"

\* a step in which initialize() completes
InitializeCompletes == \E s \in Starters : pc[s] = "initializing" /\ pc'[s] # "initializing"

\* C31: the scheduler loop triggers a job only at a tick with no current job
\* and with the clock at or past next_scheduled_time; next_scheduled_time is
\* set to the clock by initialize() and to last_collection_time plus the
\* interval by each successful job, and by nothing else
C31_ScheduledOnlyWhenDue ==
    [][/\ ScheduledTrigger =>
            /\ current_job = 0
            /\ next_scheduled_time # NoTime
            /\ now >= next_scheduled_time
            /\ next_scheduled_time =
                  IF last_collection_time = NoTime THEN next_scheduled_time
                  ELSE last_collection_time + IntervalTicks
       /\ next_scheduled_time' # next_scheduled_time =>
            \/ InitializeCompletes /\ last_collection_time = NoTime
                  /\ next_scheduled_time' = now
            \/ InitializeCompletes /\ last_collection_time # NoTime
                  /\ next_scheduled_time' = last_collection_time + IntervalTicks
            \/ JobSucceeds /\ last_collection_time' = now
                  /\ next_scheduled_time' = now + IntervalTicks]_vars

\* a second scheduled job was triggered one interval after the first succeeded
C31_Witness ==
    /\ Len(job_history) = 2
    /\ job_history[1].trigger = "scheduled" /\ job_history[1].exit = "return"
    /\ job_history[2].trigger = "scheduled"
    /\ job_history[2].job_id = job_history[1].end_time + IntervalTicks


\* the scheduler task s is inside _run_scheduler_loop
InSchedulerLoop(s) == pc[s] \in {"sleep"} \cup RunPcs

\* C32: when a scheduled run_collection_job raises, the job is left in state
\* error and the task is back in the scheduler loop, asleep until its next
\* tick; the loop is left only once shutdown has been requested
C32_LoopSurvivesJobFailure ==
    [][\A s \in SchedTasks :
          /\ (pc[s] \in RunPcs /\ job_history'[tjob[s]].exit = "raise") =>
                /\ job_history'[tjob[s]].state = "error"
                /\ job_history'[tjob[s]].end_time # NoTime
                /\ pc'[s] = "sleep"
                /\ is_running'
          /\ (InSchedulerLoop(s) /\ pc'[s] \in {"stopping", "off"}) => shutdown_requested]_vars

\* a scheduled job failed and a later tick of the same loop triggered the next
C32_Witness ==
    /\ Len(job_history) = 2
    /\ job_history[1].trigger = "scheduled"
    /\ job_history[1].exit = "raise" /\ job_history[1].state = "error"
    /\ job_history[2].trigger = "scheduled"
    /\ pc["s1"] \in RunPcs


(***************************************************************************)
(* BatchProcessor.shutdown, beside the queue loop and the job tasks.  The  *)
(* processors of the model are coroutine functions, as the orchestrator's  *)
(* drama_processing_pipeline is, so the items of a batch are awaited in    *)
(* the event loop and the executor is not on their path.                   *)
(***************************************************************************)

\* shutdown() polls active_jobs every two seconds; at the poll that finds it
\* empty it stops the executor and returns
batch_shutdown ==
    /\ ~executor_shutdown
    /\ ActiveIds(active_jobs) = {}
    /\ executor_shutdown' = TRUE
    /\ UNCHANGED <<batchVars, utilVars, now, config, state, current_job, job_history,
                   is_running, shutdown_requested, components_initialized,
                   last_collection_time, next_scheduled_time, pc, tjob, items, resp,
                   monitoring_active, cache_manager_set, lifespan_pc>>

NextBatchShutdown ==
    \/ \E id \in JobIds :
          submit_job(id, 1, 1, 0, {}) /\ Len(bjobs') <= MaxBatchJobs
    \/ process_queue_start
    \/ process_queue_wake
    \/ \E o \in 1..MaxBatchJobs : process_job_start(o)
    \/ \E o \in 1..MaxBatchJobs, k \in 1..MaxData : item_done(o, k)
    \/ \E o \in 1..MaxBatchJobs : batch_done(o)
    \/ \E o \in 1..MaxBatchJobs : batch_timeout(o)
    \/ \E id \in JobIds : cancel_job(id)
    \/ batch_shutdown

SpecBatchShutdown == InitBatch /\ [][NextBatchShutdown]_vars

\* the job objects the processor still holds in its queue or in active_jobs
HeldJobs == Range(job_queue) \cup {active_jobs[id] : id \in ActiveIds(active_jobs)}

\* C33: when shutdown() returns no job the processor holds is pending or
\* processing, and once the pool is stopped no queued job is started
C33_ShutdownDrainsJobs ==
    [][/\ (~executor_shutdown /\ executor_shutdown') =>
            \A o \in HeldJobs' : bjobs'[o].status \notin {"pending", "processing"}
       /\ executor_shutdown =>
            \A o \in DOMAIN bjobs : ~(bjobs[o].pc = "queued" /\ bjobs'[o].pc = "task")]_vars


(***************************************************************************)
(* The data sources of a collection job.  The orchestrator keeps the       *)
(* configuration that get_config() returned to its constructor, a deep     *)
(* copy; update_config changes the configuration manager's own object.     *)
(***************************************************************************)

\* what the steps below leave alone
notSources == <<orchVars, batchVars, rlVars, cacheVars, valVars, procVars, expVars,
                cfgVars, fileVars, global_stats, own_stats, mon_pc, req_export, job_slots>>

\* update_config({'data_sources': {x: {'enabled': enabled}}})
update_data_source(x, enabled) ==
    /\ manager_sources' = IF enabled THEN manager_sources \cup {x}
                          ELSE manager_sources \ {x}
    /\ manager_sources' # manager_sources
    /\ UNCHANGED <<notSources, msVars, orch_sources>>

\* _collect_data on a cache miss: the enabled sources are read from
\* self.config and a MultiSourceCollector scoped to them is entered; __aenter__
\* creates the sessions without suspending (failing: the collector whose
\* session cannot be created, "none" when all can)
collect_data_enter(failing) ==
    /\ scope_pc \in {"out", "left"}
    /\ failing \in Range(OpenOrder(orch_sources)) \cup {"none"}
    /\ enabled_sources' = orch_sources
    /\ LET order == OpenOrder(orch_sources)
           stop == IF failing = "none" THEN Len(order) + 1
                   ELSE CHOOSE k \in DOMAIN order : order[k] = failing
       IN /\ session' = [o \in Owners |->
                           IF \E k \in 1..(stop - 1) : order[k] = o
                           THEN "open" ELSE "none"]
          /\ collectors' = SelectSeq(Tail(order),
                                     LAMBDA x : \E k \in 2..Min(stop, Len(order)) : order[k] = x)
    /\ scope_pc' = IF failing = "none" THEN "in" ELSE "left"
    /\ UNCHANGED <<notSources, manager_sources, orch_sources, list_pc, list_count,
                   src_raw, src_time, task_result, run, prev_result, list_result,
                   detail_pc, preferred_source, queried, detail_result>>

\* ConfigManager.__init__ with any sources enabled, DramaOrchestrator.__init__
\* after it
InitSources ==
    /\ OrchAtRest /\ InitBatchProcessor /\ InitRateLimiter /\ MsAtRest
    /\ CacheAtRest /\ ValAtRest /\ ProcAtRest /\ ExpAtRest /\ CfgAtRest /\ FileAtRest
    /\ manager_sources \in SUBSET Sources
    /\ orch_sources = manager_sources
    /\ global_stats = NoStats
    /\ own_stats = NoStats
    /\ mon_pc = "idle"
    /\ req_export = TRUE
    /\ job_slots = max_concurrent_jobs

NextSources ==
    \/ \E x \in Sources, enabled \in BOOLEAN : update_data_source(x, enabled)
    \/ \E failing \in Owners \cup {"none"} : collect_data_enter(failing)
    \/ scope_body_ends
    \/ \E raises \in BOOLEAN : scope_close(raises)

SpecSources == InitSources /\ [][NextSources]_vars

\* C34: the collect stage of a job opens the sources that are enabled in the
\* configuration when the job runs, so none that an earlier update disabled
C34_OpensEnabledSourcesOnly ==
    [][\A x \in Sources :
          (session[x] # "open" /\ session'[x] = "open") => x \in manager_sources]_vars


(***************************************************************************)
(* The job history.                                                        *)
(***************************************************************************)

\* C38: the jobs of the history carry pairwise distinct job ids, also when
\* two runs start within the same clock second
C38_JobIdsAreDistinct ==
    \A i, j \in DOMAIN job_history :
        i # j => job_history[i].job_id # job_history[j].job_id

\* a task passes the conflict test of run_collection_job and appends its job
JobEntered == \E t \in Tasks : pc[t] \notin RunPcs /\ pc'[t] = "collect"

\* the jobs that are over
PastJobs == DOMAIN job_history \ {current_job}

HistoryGrows ==
    /\ Len(job_history') = Len(job_history) + (IF JobEntered THEN 1 ELSE 0)
    /\ \A i \in DOMAIN job_history :
          /\ job_history'[i].job_id = job_history[i].job_id
          /\ job_history'[i].trigger = job_history[i].trigger
          /\ i \in PastJobs => job_history'[i] = job_history[i]

PastJobsAreOver ==
    \A i \in PastJobs :
        /\ job_history[i].end_time # NoTime
        /\ job_history[i].state \in {"idle", "error"}

\* C39: the history only grows, by one job per run that passes the conflict
\* test, its jobs keep their place, and every job other than the current one
\* has end_time set and state idle or error
C39_HistoryOnlyGrows == []PastJobsAreOver /\ [][HistoryGrows]_vars

\* a failed job followed by a running one
C39_Witness ==
    /\ Len(job_history) = 2
    /\ current_job = 2
    /\ job_history[1].state = "error"
    /\ job_history[1].end_time # NoTime
    /\ job_history[2].state = "storing"


(***************************************************************************)
(* The export flag of POST /jobs/start.  The handler passes the request    *)
(* body to run_collection_job, which stores it as the job's metadata;      *)
(* req_export is its export_enabled field.                                 *)
(***************************************************************************)
InitRequest ==
    /\ InitOrchestrator
    /\ components_initialized
    /\ CacheAtRest /\ ValAtRest /\ ProcAtRest /\ ExpAtRest /\ CfgAtRest /\ FileAtRest
    /\ manager_sources = Sources
    /\ orch_sources = Sources
    /\ global_stats = NoStats
    /\ own_stats = NoStats
    /\ mon_pc = "idle"
    /\ req_export \in BOOLEAN
    /\ job_slots = max_concurrent_jobs

SpecRequest == InitRequest /\ [][NextJob]_vars

\* C37: a job started through POST /jobs/start with export_enabled false in
\* the request body never enters the exporting state
C37_RequestFlagDisablesExport ==
    \A i \in DOMAIN job_history :
        (job_history[i].trigger = "manual" /\ ~req_export)
            => "exporting" \notin Range(job_history[i].trace)


(***************************************************************************)
(* The performance monitors.  The stages of a job are decorated with the   *)
(* module-level timing(), which records into global_monitor (global_stats);*)
(* the orchestrator constructs a PerformanceMonitor of its own (own_stats),*)
(* which maintenance resets and the status endpoints report.  The stages'  *)
(* own effects are the actions of Spec; here is what the wrapper adds.     *)
(***************************************************************************)

\* ProcessingStats.update
update(stats, success) ==
    IF success THEN [stats EXCEPT !.total_processed = @ + 1]
    ELSE [stats EXCEPT !.total_failed = @ + 1]

\* PerformanceMonitor.get_processing_stats() of the orchestrator's monitor,
\* the 'processing_stats' of get_performance_summary
get_performance_summary == own_stats

\* what the monitors' steps leave alone
notMon == <<orchVars, batchVars, rlVars, msVars, cacheVars, valVars, procVars, expVars,
            cfgVars, fileVars, manager_sources, orch_sources, req_export, job_slots>>

\* the finally clause of the wrapper timing(op) puts around a stage that
\* returned (success) or raised
timing_finally(op, success) ==
    /\ global_stats[op].total_processed + global_stats[op].total_failed < MaxTimed
    /\ global_stats' = [global_stats EXCEPT ![op] = update(@, success)]
    /\ UNCHANGED <<notMon, own_stats, mon_pc>>

\* _run_maintenance up to its await of cleanup_completed_jobs
run_maintenance ==
    /\ mon_pc = "idle"
    /\ mon_pc' = "maintenance"
    /\ UNCHANGED <<notMon, global_stats, own_stats>>

\* the rest of _run_maintenance: self.performance_monitor.reset_stats()
run_maintenance_done ==
    /\ mon_pc = "maintenance"
    /\ own_stats' = NoStats
    /\ mon_pc' = "idle"
    /\ UNCHANGED <<notMon, global_stats>>

InitMonitor ==
    /\ OrchAtRest /\ InitBatchProcessor /\ InitRateLimiter /\ MsAtRest
    /\ MoreAtRest

NextMonitor ==
    \/ \E op \in Ops, success \in BOOLEAN : timing_finally(op, success)
    \/ run_maintenance
    \/ run_maintenance_done

SpecMonitor == InitMonitor /\ [][NextMonitor]_vars

\* C36: until maintenance the statistics the timing wrappers write are the
\* ones the performance summary reports, and when _run_maintenance has
\* completed they are empty
C36_MaintenanceResetsStageStats ==
    /\ [](mon_pc = "idle" => get_performance_summary = global_stats)
    /\ [][(mon_pc = "maintenance" /\ mon_pc' = "idle") => global_stats' = NoStats]_vars


(***************************************************************************)
(* SpecBatchLive: the job queue under fair scheduling.  The event loop     *)
(* runs every task that is ready: a created queue loop starts, a sleeping  *)
(* one wakes, a created job task starts, and each awaited batch ends, by   *)
(* its processor calls returning or by its timeout.  No job is cancelled.  *)
(* The processor is constructed with any number of job slots.              *)
(***************************************************************************)
InitBatchLive ==
    /\ OrchAtRest /\ InitBatchProcessor /\ InitRateLimiter /\ MsAtRest
    /\ CacheAtRest /\ ValAtRest /\ ProcAtRest /\ ExpAtRest /\ CfgAtRest /\ FileAtRest
    /\ manager_sources = Sources
    /\ orch_sources = Sources
    /\ global_stats = NoStats
    /\ own_stats = NoStats
    /\ mon_pc = "idle"
    /\ req_export = TRUE
    /\ job_slots \in 1..MaxSlots

\* the awaited batch of the task of object o moves on
BatchStep(o) ==
    \/ \E k \in 1..MaxData : item_done(o, k)
    \/ batch_done(o)
    \/ batch_timeout(o)

NextBatchLive ==
    \/ \E id \in JobIds :
          submit_job(id, 1, 1, 0, {}) /\ Len(bjobs') <= MaxLiveJobs
    \/ process_queue_start
    \/ process_queue_wake
    \/ \E o \in 1..MaxLiveJobs : process_job_start(o)
    \/ \E o \in 1..MaxLiveJobs : BatchStep(o)

FairBatch ==
    /\ WF_vars(process_queue_start)
    /\ WF_vars(process_queue_wake)
    /\ \A o \in 1..MaxLiveJobs : WF_vars(process_job_start(o))
    /\ \A o \in 1..MaxLiveJobs : WF_vars(BatchStep(o))

SpecBatchLive == InitBatchLive /\ [][NextBatchLive]_vars /\ FairBatch

\* the job object o has ended in the completed map
EndedInCompleted(o) ==
    /\ o \in DOMAIN bjobs
    /\ completed_jobs[bjobs[o].job_id] = o
    /\ bjobs[o].status \in {"completed", "failed"}

\* C40: every job accepted by submit_job eventually is in the completed map
\* with status completed or failed
C40_AcceptedJobsEnd ==
    \A o \in 1..MaxLiveJobs : <>(o \in DOMAIN bjobs) => <>EndedInCompleted(o)


====
